---------------------------- MODULE Spec2Model ----------------------------
(***************************************************************************)
(* A state-machine model of the vertical split diff worker                 *)
(* (VerticalSplitDiffWorker): the phase controller Run/run, the phases     *)
(* init, findTargets, synchronizeReplication and diff, the compensation    *)
(* chain (wrangler.Cleaner), the tablets the worker talks to and the Row   *)
(* Differ a table-diff goroutine runs over its two row streams; and, at the *)
(* end, the UpdateThrottlerConfiguration command of vtctl.                 *)
(***************************************************************************)
EXTENDS Integers, Sequences, FiniteSets, TLC

(***************************************************************************)
(* Bounds of the model.                                                    *)
(***************************************************************************)
\* number of writes the source primary accepts during one run
MaxWrites == 1
\* number of table definitions a schema can hold
NumTables == 2
\* the concurrency cap K of the diff phase (vsdw.parallelDiffsCount)
parallelDiffsCount == 1

Tables == 1..NumTables
Sides == {"src", "dst"}
NoPos == -1
NoSchema == {0}

\* WorkerState values
WorkerStateNotStarted == "NotStarted"
WorkerStateInit == "Init"
WorkerStateFindTargets == "FindTargets"
WorkerStateSyncReplication == "SyncReplication"
WorkerStateDiff == "Diff"
WorkerStateDiffWillFail == "DiffWillFail"
WorkerStateCleanUp == "CleanUp"
WorkerStateDone == "Done"
WorkerStateError == "Error"

\* the error values Run can return
NoErr == "nil"
ErrInit == "init() failed"
ErrFindTargets == "findTargets() failed"
ErrSync == "synchronizeReplication() failed"
ErrDiff == "diff() failed"
ErrCanceled == "context canceled"
ErrCleanUp == "CleanUp failed"

PhaseOrder == <<"init", "findTargets", "synchronizeReplication", "diff">>
PhaseErr == <<ErrInit, ErrFindTargets, ErrSync, ErrDiff>>

VARIABLES
  pc,               \* position of the goroutine that called Run
  state,            \* StatusWorker state
  ctxDone,          \* the context passed to Run has been cancelled
  runErr,           \* err of Run: the value run() returned
  cerr,             \* the value cleaner.CleanUp returned
  retErr,           \* the value Run returned
  topo,             \* keyspace and shard records of the topology server
  topoReads,        \* history: number of topology reads of init that succeeded
  destinationAlias, \* vsdw.destinationAlias has been populated
  sourceAlias,      \* vsdw.sourceAlias has been populated
  cleaner,          \* vsdw.cleaner: the recorded actions, in registration order
  cleanIdx,         \* index of the next action CleanUp runs
  executed,         \* the actions CleanUp has run, in execution order
  srcLog,           \* number of writes in the source primary's log
  tablet,           \* the source and the destination tablet
  vr,               \* the destination primary's filtered-replication stream
  vreplicationPos,  \* local of synchronizeReplication
  mysqlPos,         \* local of synchronizeReplication
  masterPos,        \* local of synchronizeReplication
  fetchPc,          \* the two schema-fetch goroutines
  schema,           \* vsdw.sourceSchemaDefinition, vsdw.destinationSchemaDefinition
  rec,              \* the error recorder of diff
  sem,              \* permits of the semaphore currently taken
  taskPc,           \* position of each table-diff goroutine
  taskResult,       \* how each table-diff goroutine ended
  open,             \* the row streams each table-diff goroutine holds open
  stateTrace,       \* history: every value passed to SetState, in order
  phases,           \* history: the phases entered, in order
  phaseResult,      \* history: how each phase returned
  checksPassed,     \* history: number of checkDone calls that returned nil
  cancelPhase,      \* history: the phase that was current when ctx was cancelled
  cleanUpCalls,     \* history: number of calls of cleaner.CleanUp
  sourceRows,       \* the rows the source stream of the Row Differ yields
  destinationRows,  \* the rows the destination stream of the Row Differ yields
  srcCursor,        \* Row Differ: index of the current source row
  dstCursor,        \* Row Differ: index of the current destination row
  report,           \* Row Differ: the DiscrepancyReport
  differPc,         \* Row Differ: "idle", "Go", "returned" or "failed"
  cmd               \* one invocation of commandUpdateThrottlerConfiguration

mainVars == <<pc, state, runErr, cerr, retErr>>
targetVars == <<destinationAlias, sourceAlias>>
cleanVars == <<cleaner, cleanIdx, executed, cleanUpCalls>>
worldVars == <<srcLog, tablet, vr>>
syncVars == <<vreplicationPos, mysqlPos, masterPos>>
diffVars == <<fetchPc, schema, rec, sem, taskPc, taskResult, open>>
histVars == <<stateTrace, phases, phaseResult, checksPassed>>
differVars == <<sourceRows, destinationRows, srcCursor, dstCursor, report,
                differPc>>
\* what no action of the worker outside init changes
restVars == <<topo, topoReads, differVars, cmd>>

vars == <<pc, state, ctxDone, runErr, cerr, retErr, topo, destinationAlias,
          sourceAlias, cleaner, cleanIdx, executed, srcLog, tablet, vr,
          vreplicationPos, mysqlPos, masterPos, fetchPc, schema, rec, sem,
          taskPc, taskResult, open, stateTrace, phases, phaseResult,
          checksPassed, cancelPhase, cleanUpCalls, topoReads, sourceRows,
          destinationRows, srcCursor, dstCursor, report, differPc, cmd>>

(***************************************************************************)
(* The topology a run can find: the keyspace's ServedFroms, the shard's    *)
(* SourceShards, the tables of SourceShards[0] and the shard's primary.    *)
(***************************************************************************)
Topologies ==
  [servedFroms : 0..1, sourceShards : 0..2, tables : 0..1, hasPrimary : BOOLEAN]

\* the Row Differ before NewRowDiffer: no streams, an empty report
NoReport == [processedRows |-> 0, discrepancies |-> <<>>]

DifferIdle ==
  /\ sourceRows = <<>>
  /\ destinationRows = <<>>
  /\ srcCursor = 1
  /\ dstCursor = 1
  /\ report = NoReport
  /\ differPc = "idle"

\* no command has been invoked
CommandIdle ==
  [pc |-> "idle", flagsOk |-> TRUE, positional |-> <<>>,
   copyZeroValues |-> FALSE, throttlerName |-> "", configuration |-> "",
   err |-> NoErr, connected |-> FALSE, sent |-> <<>>]

\* the worker as NewVerticalSplitDiffWorker returns it
WorkerInit ==
  /\ pc = "Run"
  /\ state = WorkerStateNotStarted
  /\ ctxDone = FALSE
  /\ runErr = NoErr
  /\ cerr = NoErr
  /\ retErr = NoErr
  /\ topo \in Topologies
  /\ destinationAlias = FALSE
  /\ sourceAlias = FALSE
  /\ cleaner = <<>>
  /\ cleanIdx = 0
  /\ executed = <<>>
  /\ srcLog = 0
  /\ tablet = [s \in Sides |-> [pos |-> 0, running |-> TRUE, type |-> "serving"]]
  /\ vr = [state |-> "Running", pos |-> 0, until |-> NoPos]
  /\ vreplicationPos = NoPos
  /\ mysqlPos = NoPos
  /\ masterPos = NoPos
  /\ fetchPc = [s \in Sides |-> "none"]
  /\ schema = [s \in Sides |-> NoSchema]
  /\ rec = {}
  /\ sem = 0
  /\ taskPc = [t \in Tables |-> "none"]
  /\ taskResult = [t \in Tables |-> "none"]
  /\ open = [t \in Tables |-> {}]
  /\ stateTrace = <<>>
  /\ phases = <<>>
  /\ phaseResult = [i \in 1..4 |-> "none"]
  /\ checksPassed = 0
  /\ cancelPhase = 0
  /\ cleanUpCalls = 0
  /\ topoReads = 0
  /\ DifferIdle

Init == WorkerInit /\ cmd = CommandIdle

(***************************************************************************)
(* StatusWorker.SetState.                                                  *)
(***************************************************************************)
SetState(s) ==
  /\ state' = s
  /\ stateTrace' = Append(stateTrace, s)

\* a phase is entered: its first statement is SetState
EnterPhase(i, s) ==
  /\ SetState(s)
  /\ phases' = Append(phases, PhaseOrder[i])

(***************************************************************************)
(* run(): a phase that returns an error makes run return the wrapped       *)
(* error; a phase that returns nil is followed by checkDone.               *)
(***************************************************************************)
\* faulty variant: the error of a phase is noted but run() goes on
PhaseFailed_Continues(i) ==
  /\ runErr' = PhaseErr[i]
  /\ phaseResult' = [phaseResult EXCEPT ![i] = "err"]
  /\ pc' = <<"checkDone1", "checkDone2", "checkDone3", "checkDone4">>[i]

PhaseFailed(i) ==
  /\ runErr' = PhaseErr[i]
  /\ phaseResult' = [phaseResult EXCEPT ![i] = "err"]
  /\ pc' = "run_returned"

PhaseReturned(i) ==
  /\ phaseResult' = [phaseResult EXCEPT ![i] = "ok"]
  /\ pc' = <<"checkDone1", "checkDone2", "checkDone3", "checkDone4">>[i]
  /\ UNCHANGED runErr

\* where run() continues after the i-th checkDone returned nil
AfterCheck == <<"findTargets_dst", "sync_GetPrimary", "diff", "run_returned">>

\* run() has returned to Run
RunReturned == pc \in {"run_returned", "CleanUp", "done"}

\* faulty variant: no check of the context after the diff phase
run_checkDone_SkipsLast(i) ==
  /\ pc = <<"checkDone1", "checkDone2", "checkDone3", "checkDone4">>[i]
  /\ IF ctxDone /\ i # 4
       THEN /\ runErr' = ErrCanceled
            /\ pc' = "run_returned"
            /\ UNCHANGED checksPassed
       ELSE /\ checksPassed' = i
            /\ pc' = AfterCheck[i]
            /\ UNCHANGED runErr
  /\ UNCHANGED <<state, ctxDone, cerr, retErr, restVars, targetVars, cleanVars,
                 worldVars, syncVars, diffVars, stateTrace, phases,
                 phaseResult, cancelPhase>>

(***************************************************************************)
(* run(): checkDone(ctx) after a phase returns ctx.Err() when the context  *)
(* is done, and run() returns that error unwrapped.                        *)
(***************************************************************************)
run_checkDone(i) ==
  /\ pc = <<"checkDone1", "checkDone2", "checkDone3", "checkDone4">>[i]
  /\ IF ctxDone
       THEN /\ runErr' = ErrCanceled
            /\ pc' = "run_returned"
            /\ UNCHANGED checksPassed
       ELSE /\ checksPassed' = i
            /\ pc' = AfterCheck[i]
            /\ UNCHANGED runErr
  /\ UNCHANGED <<state, ctxDone, cerr, retErr, restVars, targetVars, cleanVars,
                 worldVars, syncVars, diffVars, stateTrace, phases,
                 phaseResult, cancelPhase>>

(***************************************************************************)
(* The caller of Run cancels the context.  Only run() reads the context:   *)
(* a cancellation after run() returned changes nothing the worker sees.    *)
(***************************************************************************)
Cancel ==
  /\ ~ctxDone
  /\ ~RunReturned
  /\ ctxDone' = TRUE
  /\ cancelPhase' = checksPassed + 1
  /\ UNCHANGED <<mainVars, restVars, targetVars, cleanVars, worldVars, syncVars,
                 diffVars, histVars>>

(***************************************************************************)
(* init phase.                                                             *)
(***************************************************************************)
\* faulty variant: init does not set the state
init_GetKeyspace_NoSetState ==
  /\ pc = "Run"
  /\ phases' = Append(phases, PhaseOrder[1])
  /\ UNCHANGED <<state, stateTrace>>
  /\ \/ PhaseFailed(1) /\ UNCHANGED topoReads
     \/ /\ topo.servedFroms = 0
        /\ PhaseFailed(1)
        /\ topoReads' = 1
     \/ /\ topo.servedFroms # 0
        /\ pc' = "init_GetShard"
        /\ topoReads' = 1
        /\ UNCHANGED <<runErr, phaseResult>>
  /\ UNCHANGED <<ctxDone, cerr, retErr, topo, differVars, cmd, targetVars,
                 cleanVars, worldVars, syncVars, diffVars, checksPassed,
                 cancelPhase>>

init_GetKeyspace ==
  /\ pc = "Run"
  /\ EnterPhase(1, WorkerStateInit)
  /\ \/ PhaseFailed(1) /\ UNCHANGED topoReads     \* GetKeyspace failed
     \/ /\ topo.servedFroms = 0
        /\ PhaseFailed(1)
        /\ topoReads' = 1
     \/ /\ topo.servedFroms # 0
        /\ pc' = "init_GetShard"
        /\ topoReads' = 1
        /\ UNCHANGED <<runErr, phaseResult>>
  /\ UNCHANGED <<ctxDone, cerr, retErr, topo, differVars, cmd, targetVars,
                 cleanVars, worldVars, syncVars, diffVars, checksPassed,
                 cancelPhase>>

\* faulty variant: init does not check that the shard has a primary
init_GetShard_NoPrimaryCheck ==
  /\ pc = "init_GetShard"
  /\ \/ PhaseFailed(1) /\ UNCHANGED topoReads     \* GetShard failed
     \/ topo.sourceShards # 1 /\ PhaseFailed(1) /\ topoReads' = 2
     \/ topo.sourceShards = 1 /\ topo.tables = 0 /\ PhaseFailed(1)
          /\ topoReads' = 2
     \/ topo.sourceShards = 1 /\ topo.tables # 0
          /\ PhaseReturned(1) /\ topoReads' = 2
  /\ UNCHANGED <<state, ctxDone, cerr, retErr, topo, differVars, cmd, targetVars,
                 cleanVars, worldVars, syncVars, diffVars, stateTrace, phases,
                 checksPassed, cancelPhase>>

init_GetShard ==
  /\ pc = "init_GetShard"
  /\ \/ PhaseFailed(1) /\ UNCHANGED topoReads     \* GetShard failed
     \/ topo.sourceShards # 1 /\ PhaseFailed(1) /\ topoReads' = 2
     \/ topo.sourceShards = 1 /\ topo.tables = 0 /\ PhaseFailed(1)
          /\ topoReads' = 2
     \/ topo.sourceShards = 1 /\ topo.tables # 0 /\ ~topo.hasPrimary
          /\ PhaseFailed(1) /\ topoReads' = 2
     \/ topo.sourceShards = 1 /\ topo.tables # 0 /\ topo.hasPrimary
          /\ PhaseReturned(1) /\ topoReads' = 2
  /\ UNCHANGED <<state, ctxDone, cerr, retErr, topo, differVars, cmd, targetVars,
                 cleanVars, worldVars, syncVars, diffVars, stateTrace, phases,
                 checksPassed, cancelPhase>>

(***************************************************************************)
(* The compensation chain.  Record appends an action; the actions the      *)
(* worker records are named by what they do and the tablet they target.    *)
(***************************************************************************)
ChangeTabletTypeAction(s) == [name |-> "ChangeTabletType", target |-> s]
StartReplicationAction(s) == [name |-> "StartReplication", target |-> s]
VReplicationAction == [name |-> "StartVReplication", target |-> "primary"]

Record(a) == cleaner' = Append(cleaner, a)

(***************************************************************************)
(* FindWorkerTablet: picks a healthy tablet of the shard, takes it out of  *)
(* serving ("mark them all as 'worker' pointing back to us") and records   *)
(* the action that gives it its type back in the cleaner it is handed.     *)
(***************************************************************************)
FindWorkerTablet(s) ==
  /\ tablet' = [tablet EXCEPT ![s].type = "drained"]
  /\ Record(ChangeTabletTypeAction(s))

(***************************************************************************)
(* findTargets phase: the destination tablet first, then the source.       *)
(***************************************************************************)
\* faulty variant: the source is searched although the search of the
\* destination failed
findTargets_dst_SearchesSourceAnyway ==
  /\ pc = "findTargets_dst"
  /\ EnterPhase(2, WorkerStateFindTargets)
  /\ \/ /\ pc' = "findTargets_src"
        /\ UNCHANGED <<destinationAlias, cleaner, tablet, runErr, phaseResult>>
     \/ /\ FindWorkerTablet("dst")
        /\ destinationAlias' = TRUE
        /\ pc' = "findTargets_src"
        /\ UNCHANGED <<runErr, phaseResult>>
  /\ UNCHANGED <<ctxDone, cerr, retErr, restVars, sourceAlias, cleanIdx, executed,
                 cleanUpCalls, srcLog, vr, syncVars, diffVars, checksPassed,
                 cancelPhase>>

findTargets_dst ==
  /\ pc = "findTargets_dst"
  /\ EnterPhase(2, WorkerStateFindTargets)
  /\ \/ /\ PhaseFailed(2)
        /\ UNCHANGED <<destinationAlias, cleaner, tablet>>
     \/ /\ FindWorkerTablet("dst")
        /\ destinationAlias' = TRUE
        /\ pc' = "findTargets_src"
        /\ UNCHANGED <<runErr, phaseResult>>
  /\ UNCHANGED <<ctxDone, cerr, retErr, restVars, sourceAlias, cleanIdx, executed,
                 cleanUpCalls, srcLog, vr, syncVars, diffVars, checksPassed,
                 cancelPhase>>

\* faulty variant: the failed search of the source leaves a tablet marked
findTargets_src_FailsAfterMark ==
  /\ pc = "findTargets_src"
  /\ \/ /\ PhaseFailed(2)
        /\ tablet' = [tablet EXCEPT !["src"].type = "drained"]
        /\ UNCHANGED <<sourceAlias, cleaner>>
     \/ /\ FindWorkerTablet("src")
        /\ sourceAlias' = TRUE
        /\ PhaseReturned(2)
  /\ UNCHANGED <<state, ctxDone, cerr, retErr, restVars, destinationAlias,
                 cleanIdx, executed, cleanUpCalls, srcLog, vr, syncVars,
                 diffVars, stateTrace, phases, checksPassed, cancelPhase>>

findTargets_src ==
  /\ pc = "findTargets_src"
  /\ \/ /\ PhaseFailed(2)
        /\ UNCHANGED <<sourceAlias, cleaner, tablet>>
     \/ /\ FindWorkerTablet("src")
        /\ sourceAlias' = TRUE
        /\ PhaseReturned(2)
  /\ UNCHANGED <<state, ctxDone, cerr, retErr, restVars, destinationAlias,
                 cleanIdx, executed, cleanUpCalls, srcLog, vr, syncVars,
                 diffVars, stateTrace, phases, checksPassed, cancelPhase>>

(***************************************************************************)
(* The statements the worker sends to the destination primary's stream     *)
(* (binlogplayer.StopVReplication, StartVReplication,                      *)
(* StartVReplicationUntil) and the tablet manager's StopReplicationMinimum.*)
(***************************************************************************)
StopVReplication == [vr EXCEPT !.state = "Stopped"]
StartVReplication == [vr EXCEPT !.state = "Running", !.until = NoPos]
StartVReplicationUntil(p) ==
  [vr EXCEPT !.state = IF vr.pos >= p THEN "Stopped" ELSE "Running",
             !.until = p]
\* the tablet stops once it has reached position p, not before
CanStopReplicationMinimum(s, p) == tablet[s].pos >= p
StopReplicationMinimum(s) == [tablet EXCEPT ![s].running = FALSE]

(***************************************************************************)
(* synchronizeReplication phase.  A remote call that changes a tablet      *)
(* either succeeds, fails without effect, or fails (its deadline passes,   *)
(* the reply is lost) after the tablet has done what was asked.            *)
(***************************************************************************)
\* what no step of the phase changes
syncFrame ==
  UNCHANGED <<ctxDone, cerr, retErr, restVars, targetVars, cleanIdx, executed,
              cleanUpCalls, srcLog, diffVars, checksPassed, cancelPhase>>

\* the locals of synchronizeReplication live until it returns
SetLocals(v, m, p) ==
  /\ vreplicationPos' = v
  /\ mysqlPos' = m
  /\ masterPos' = p

\* faulty variant: run() does not return when synchronizeReplication failed
syncFailed_GoesOn ==
  /\ runErr' = PhaseErr[3]
  /\ phaseResult' = [phaseResult EXCEPT ![3] = "err"]
  /\ pc' = "checkDone3"
  /\ SetLocals(NoPos, NoPos, NoPos)

syncFailed ==
  /\ PhaseFailed(3)
  /\ SetLocals(NoPos, NoPos, NoPos)

syncReturned ==
  /\ PhaseReturned(3)
  /\ SetLocals(NoPos, NoPos, NoPos)

syncContinue(next) ==
  /\ pc' = next
  /\ UNCHANGED <<runErr, phaseResult>>

sync_GetPrimary ==
  /\ pc = "sync_GetPrimary"
  /\ EnterPhase(3, WorkerStateSyncReplication)
  /\ \/ syncFailed
     \/ syncContinue("sync_StopVReplication") /\ UNCHANGED syncVars
  /\ UNCHANGED <<tablet, vr, cleaner>>
  /\ syncFrame

\* 1 - stop the primary binlog replication, get its current position
\* faulty variant: the stream is stopped and no action is recorded
sync_StopVReplication_NoRecord ==
  /\ pc = "sync_StopVReplication"
  /\ \/ /\ vr' = StopVReplication
        /\ UNCHANGED cleaner
        /\ syncContinue("sync_ReadPos")
        /\ UNCHANGED syncVars
     \/ syncFailed /\ UNCHANGED <<vr, cleaner>>
     \/ syncFailed /\ vr' = StopVReplication /\ UNCHANGED cleaner
  /\ UNCHANGED <<tablet, state, stateTrace, phases>>
  /\ syncFrame

sync_StopVReplication ==
  /\ pc = "sync_StopVReplication"
  /\ \/ /\ vr' = StopVReplication
        /\ Record(VReplicationAction)
        /\ syncContinue("sync_ReadPos")
        /\ UNCHANGED syncVars
     \/ syncFailed /\ UNCHANGED <<vr, cleaner>>
     \/ syncFailed /\ vr' = StopVReplication /\ UNCHANGED cleaner
  /\ UNCHANGED <<tablet, state, stateTrace, phases>>
  /\ syncFrame

sync_ReadPos ==
  /\ pc = "sync_ReadPos"
  /\ \/ syncFailed                                \* VReplicationExec failed
     \/ syncFailed                                \* not one row of one column
     \/ /\ SetLocals(vr.pos, mysqlPos, masterPos)
        /\ syncContinue("sync_GetSourceTablet")
  /\ UNCHANGED <<tablet, vr, cleaner, state, stateTrace, phases>>
  /\ syncFrame

sync_GetSourceTablet ==
  /\ pc = "sync_GetSourceTablet"
  /\ \/ syncFailed
     \/ syncContinue("sync_StopSource") /\ UNCHANGED syncVars
  /\ UNCHANGED <<tablet, vr, cleaner, state, stateTrace, phases>>
  /\ syncFrame

\* faulty variant: step 2 puts its action in the place of the last action
\* of the chain instead of appending it
sync_StopSource_ReplacesAction ==
  /\ pc = "sync_StopSource"
  /\ \/ /\ CanStopReplicationMinimum("src", vreplicationPos)
        /\ tablet' = StopReplicationMinimum("src")
        /\ SetLocals(vreplicationPos, tablet["src"].pos, masterPos)
        /\ cleaner' = [cleaner EXCEPT ![Len(cleaner)] =
                                        StartReplicationAction("src")]
        /\ syncContinue("sync_StartUntil")
     \/ syncFailed /\ UNCHANGED <<tablet, cleaner>>
     \/ /\ CanStopReplicationMinimum("src", vreplicationPos)
        /\ syncFailed
        /\ tablet' = StopReplicationMinimum("src")
        /\ UNCHANGED cleaner
  /\ UNCHANGED <<vr, state, stateTrace, phases>>
  /\ syncFrame

\* 2 - stop the source tablet at a binlog position higher than the
\*     destination primary
sync_StopSource ==
  /\ pc = "sync_StopSource"
  /\ \/ /\ CanStopReplicationMinimum("src", vreplicationPos)
        /\ tablet' = StopReplicationMinimum("src")
        /\ SetLocals(vreplicationPos, tablet["src"].pos, masterPos)
        /\ Record(StartReplicationAction("src"))
        /\ syncContinue("sync_StartUntil")
     \/ syncFailed /\ UNCHANGED <<tablet, cleaner>>
     \/ /\ CanStopReplicationMinimum("src", vreplicationPos)
        /\ syncFailed
        /\ tablet' = StopReplicationMinimum("src")
        /\ UNCHANGED cleaner
  /\ UNCHANGED <<vr, state, stateTrace, phases>>
  /\ syncFrame

\* faulty variant: step 3 resumes the stream without a stop position
sync_StartUntil_NoStopPos ==
  /\ pc = "sync_StartUntil"
  /\ \/ /\ vr' = StartVReplication
        /\ syncContinue("sync_WaitForPos")
        /\ UNCHANGED syncVars
     \/ syncFailed /\ UNCHANGED vr
     \/ syncFailed /\ vr' = StartVReplication
  /\ UNCHANGED <<tablet, cleaner, state, stateTrace, phases>>
  /\ syncFrame

\* 3 - ask the primary of the destination shard to resume filtered
\*     replication up to the new list of positions
sync_StartUntil ==
  /\ pc = "sync_StartUntil"
  /\ \/ /\ vr' = StartVReplicationUntil(mysqlPos)
        /\ syncContinue("sync_WaitForPos")
        /\ UNCHANGED syncVars
     \/ syncFailed /\ UNCHANGED vr
     \/ syncFailed /\ vr' = StartVReplicationUntil(mysqlPos)
  /\ UNCHANGED <<tablet, cleaner, state, stateTrace, phases>>
  /\ syncFrame

\* faulty variant: step 3 does not wait for the stream to catch up
sync_WaitForPos_NoWait ==
  /\ pc = "sync_WaitForPos"
  /\ \/ /\ syncContinue("sync_PrimaryPosition")
        /\ UNCHANGED syncVars
     \/ syncFailed
  /\ UNCHANGED <<tablet, vr, cleaner, state, stateTrace, phases>>
  /\ syncFrame

sync_WaitForPos ==
  /\ pc = "sync_WaitForPos"
  /\ \/ /\ vr.pos >= mysqlPos
        /\ syncContinue("sync_PrimaryPosition")
        /\ UNCHANGED syncVars
     \/ syncFailed
  /\ UNCHANGED <<tablet, vr, cleaner, state, stateTrace, phases>>
  /\ syncFrame

sync_PrimaryPosition ==
  /\ pc = "sync_PrimaryPosition"
  /\ \/ /\ SetLocals(vreplicationPos, mysqlPos, vr.pos)
        /\ syncContinue("sync_GetDestTablet")
     \/ syncFailed
  /\ UNCHANGED <<tablet, vr, cleaner, state, stateTrace, phases>>
  /\ syncFrame

sync_GetDestTablet ==
  /\ pc = "sync_GetDestTablet"
  /\ \/ syncFailed
     \/ syncContinue("sync_StopDest") /\ UNCHANGED syncVars
  /\ UNCHANGED <<tablet, vr, cleaner, state, stateTrace, phases>>
  /\ syncFrame

\* faulty variant: step 4 stops the destination tablet and records nothing
sync_StopDest_NoRecord ==
  /\ pc = "sync_StopDest"
  /\ \/ /\ CanStopReplicationMinimum("dst", masterPos)
        /\ tablet' = StopReplicationMinimum("dst")
        /\ syncContinue("sync_StartVReplication")
        /\ UNCHANGED <<syncVars, cleaner>>
     \/ syncFailed /\ UNCHANGED <<tablet, cleaner>>
     \/ /\ CanStopReplicationMinimum("dst", masterPos)
        /\ syncFailed
        /\ tablet' = StopReplicationMinimum("dst")
        /\ UNCHANGED cleaner
  /\ UNCHANGED <<vr, state, stateTrace, phases>>
  /\ syncFrame

\* 4 - wait until the destination tablet is equal or passed that primary
\*     binlog position, and stop its replication
sync_StopDest ==
  /\ pc = "sync_StopDest"
  /\ \/ /\ CanStopReplicationMinimum("dst", masterPos)
        /\ tablet' = StopReplicationMinimum("dst")
        /\ Record(StartReplicationAction("dst"))
        /\ syncContinue("sync_StartVReplication")
        /\ UNCHANGED syncVars
     \/ syncFailed /\ UNCHANGED <<tablet, cleaner>>
     \/ /\ CanStopReplicationMinimum("dst", masterPos)
        /\ syncFailed
        /\ tablet' = StopReplicationMinimum("dst")
        /\ UNCHANGED cleaner
  /\ UNCHANGED <<vr, state, stateTrace, phases>>
  /\ syncFrame

\* 5 - restart filtered replication on destination primary
sync_StartVReplication ==
  /\ pc = "sync_StartVReplication"
  /\ \/ vr' = StartVReplication /\ syncReturned
     \/ syncFailed /\ UNCHANGED vr
     \/ syncFailed /\ vr' = StartVReplication
  /\ UNCHANGED <<tablet, cleaner, state, stateTrace, phases>>
  /\ syncFrame

\* faulty variant: markAsWillFail changes the state and records nothing
\* faulty variant: an unsynchronised write, the error replaces the recorded
\* ones
markAsWillFail_Overwrites(e) ==
  /\ rec' = {e}
  /\ SetState(WorkerStateDiffWillFail)

markAsWillFail_NoRecord(e) ==
  /\ UNCHANGED rec
  /\ SetState(WorkerStateDiffWillFail)

(***************************************************************************)
(* markAsWillFail records the error and changes the state of the worker.   *)
(***************************************************************************)
markAsWillFail(e) ==
  /\ rec' = rec \cup {e}
  /\ SetState(WorkerStateDiffWillFail)

(***************************************************************************)
(* The schemas GetSchema can return: the destination holds the table       *)
(* definitions 1..n, the source holds all tables or all but the last.      *)
(* tmutils.DiffSchema records one difference for every table that one      *)
(* side has and the other has not.                                         *)
(***************************************************************************)
Schemas(s) ==
  IF s = "dst" THEN {1..n : n \in 0..NumTables}
               ELSE {Tables, Tables \ {NumTables}}

DiffSchema(dst, src) ==
  {<<"schema", t>> : t \in (dst \ src) \cup (src \ dst)}

(***************************************************************************)
(* diff phase: the two schema fetches and their join.                      *)
(***************************************************************************)
diff_start ==
  /\ pc = "diff"
  /\ EnterPhase(4, WorkerStateDiff)
  /\ rec' = {}
  /\ fetchPc' = [s \in Sides |-> "run"]
  /\ pc' = "diff_wait1"
  /\ UNCHANGED <<ctxDone, runErr, cerr, retErr, restVars, targetVars, cleanVars,
                 worldVars, syncVars, schema, sem, taskPc, taskResult, open,
                 phaseResult, checksPassed, cancelPhase>>

\* faulty variant: a fetch that succeeded sets the state to Diff again
diff_GetSchema_SetsDiff(s) ==
  /\ fetchPc[s] = "run"
  /\ fetchPc' = [fetchPc EXCEPT ![s] = "done"]
  /\ \/ /\ \E d \in Schemas(s) : schema' = [schema EXCEPT ![s] = d]
        /\ SetState(WorkerStateDiff)
        /\ UNCHANGED rec
     \/ /\ markAsWillFail(<<"GetSchema", s>>)
        /\ UNCHANGED schema
  /\ UNCHANGED <<pc, ctxDone, runErr, cerr, retErr, restVars, targetVars,
                 cleanVars, worldVars, syncVars, sem, taskPc, taskResult,
                 open, phases, phaseResult, checksPassed, cancelPhase>>

diff_GetSchema(s) ==
  /\ fetchPc[s] = "run"
  /\ fetchPc' = [fetchPc EXCEPT ![s] = "done"]
  /\ \/ /\ \E d \in Schemas(s) : schema' = [schema EXCEPT ![s] = d]
        /\ UNCHANGED <<rec, state, stateTrace>>
     \/ /\ markAsWillFail(<<"GetSchema", s>>)
        /\ UNCHANGED schema
  /\ UNCHANGED <<pc, ctxDone, runErr, cerr, retErr, restVars, targetVars,
                 cleanVars, worldVars, syncVars, sem, taskPc, taskResult,
                 open, phases, phaseResult, checksPassed, cancelPhase>>

\* faulty variant: the loop of the table diffs ranges over the source schema
diff_DiffSchema_LoopsOverSource ==
  /\ pc = "diff_wait1"
  /\ \A s \in Sides : fetchPc[s] = "done"
  /\ IF rec # {}
       THEN /\ PhaseFailed(4)
            /\ UNCHANGED <<rec, taskPc>>
       ELSE /\ rec' = DiffSchema(schema["dst"], schema["src"])
            /\ taskPc' = [t \in Tables |->
                            IF t \in schema["src"] THEN "wait" ELSE "none"]
            /\ pc' = "diff_wait2"
            /\ UNCHANGED <<runErr, phaseResult>>
  /\ UNCHANGED <<state, ctxDone, cerr, retErr, restVars, targetVars, cleanVars,
                 worldVars, syncVars, fetchPc, schema, sem, taskResult, open,
                 stateTrace, phases, checksPassed, cancelPhase>>

\* faulty variant: diff goes on without the wg.Wait() of the fetches
diff_DiffSchema_NoFetchWait ==
  /\ pc = "diff_wait1"
  /\ IF rec # {}
       THEN /\ PhaseFailed(4)
            /\ UNCHANGED <<rec, taskPc>>
       ELSE /\ rec' = DiffSchema(schema["dst"], schema["src"])
            /\ taskPc' = [t \in Tables |->
                            IF t \in schema["dst"] THEN "wait" ELSE "none"]
            /\ pc' = "diff_wait2"
            /\ UNCHANGED <<runErr, phaseResult>>
  /\ UNCHANGED <<state, ctxDone, cerr, retErr, restVars, targetVars, cleanVars,
                 worldVars, syncVars, fetchPc, schema, sem, taskResult, open,
                 stateTrace, phases, checksPassed, cancelPhase>>

\* faulty variant: diff goes on to the table diffs after a failed fetch
diff_DiffSchema_ContinuesAfterFetchError ==
  /\ pc = "diff_wait1"
  /\ \A s \in Sides : fetchPc[s] = "done"
  /\ rec' = rec \cup DiffSchema(schema["dst"], schema["src"])
  /\ taskPc' = [t \in Tables |->
                  IF t \in schema["dst"] THEN "wait" ELSE "none"]
  /\ pc' = "diff_wait2"
  /\ UNCHANGED <<runErr, phaseResult>>
  /\ UNCHANGED <<state, ctxDone, cerr, retErr, restVars, targetVars,
                 cleanVars, worldVars, syncVars, fetchPc, schema, sem,
                 taskResult, open, stateTrace, phases, checksPassed,
                 cancelPhase>>

\* faulty variant: diff returns when the schemas differ
diff_DiffSchema_ReturnsOnDifference ==
  /\ pc = "diff_wait1"
  /\ \A s \in Sides : fetchPc[s] = "done"
  /\ IF rec # {}
       THEN /\ PhaseFailed(4)
            /\ UNCHANGED <<rec, taskPc>>
       ELSE IF DiffSchema(schema["dst"], schema["src"]) # {}
         THEN /\ rec' = DiffSchema(schema["dst"], schema["src"])
              /\ PhaseFailed(4)
              /\ UNCHANGED taskPc
         ELSE /\ rec' = {}
              /\ taskPc' = [t \in Tables |->
                              IF t \in schema["dst"] THEN "wait" ELSE "none"]
              /\ pc' = "diff_wait2"
              /\ UNCHANGED <<runErr, phaseResult>>
  /\ UNCHANGED <<state, ctxDone, cerr, retErr, restVars, targetVars,
                 cleanVars, worldVars, syncVars, fetchPc, schema, sem,
                 taskResult, open, stateTrace, phases, checksPassed,
                 cancelPhase>>

\* faulty variant: the differences of the schemas are logged and not kept
diff_DiffSchema_DropsDifferences ==
  /\ pc = "diff_wait1"
  /\ \A s \in Sides : fetchPc[s] = "done"
  /\ IF rec # {}
       THEN /\ PhaseFailed(4)
            /\ UNCHANGED <<rec, taskPc>>
       ELSE /\ rec' = {}
            /\ taskPc' = [t \in Tables |->
                            IF t \in schema["dst"] THEN "wait" ELSE "none"]
            /\ pc' = "diff_wait2"
            /\ UNCHANGED <<runErr, phaseResult>>
  /\ UNCHANGED <<state, ctxDone, cerr, retErr, restVars, targetVars,
                 cleanVars, worldVars, syncVars, fetchPc, schema, sem,
                 taskResult, open, stateTrace, phases, checksPassed,
                 cancelPhase>>

\* wg.Wait() of the fetches, the schema comparison and the launch of one
\* goroutine per table definition of the destination schema
diff_DiffSchema ==
  /\ pc = "diff_wait1"
  /\ \A s \in Sides : fetchPc[s] = "done"
  /\ IF rec # {}
       THEN /\ PhaseFailed(4)
            /\ UNCHANGED <<rec, taskPc>>
       ELSE /\ rec' = DiffSchema(schema["dst"], schema["src"])
            /\ taskPc' = [t \in Tables |->
                            IF t \in schema["dst"] THEN "wait" ELSE "none"]
            /\ pc' = "diff_wait2"
            /\ UNCHANGED <<runErr, phaseResult>>
  /\ UNCHANGED <<state, ctxDone, cerr, retErr, restVars, targetVars, cleanVars,
                 worldVars, syncVars, fetchPc, schema, sem, taskResult, open,
                 stateTrace, phases, checksPassed, cancelPhase>>

(***************************************************************************)
(* One table-diff goroutine.                                               *)
(***************************************************************************)
taskFrame ==
  UNCHANGED <<pc, ctxDone, runErr, cerr, retErr, restVars, targetVars, cleanVars,
              worldVars, syncVars, fetchPc, schema, phases, phaseResult,
              checksPassed, cancelPhase>>

(***************************************************************************)
(* sync2.Semaphore with parallelDiffsCount permits: Acquire blocks until a *)
(* permit is free and takes it, Release gives it back.                     *)
(***************************************************************************)
SemaphoreAcquire ==
  /\ sem < parallelDiffsCount
  /\ sem' = sem + 1

SemaphoreRelease == sem' = sem - 1

\* faulty variant: the goroutine starts its scans without sem.Acquire()
task_Acquire_NoAcquire(t) ==
  /\ taskPc[t] = "wait"
  /\ taskPc' = [taskPc EXCEPT ![t] = "scanSrc"]
  /\ UNCHANGED <<sem, rec, state, stateTrace, taskResult, open>>
  /\ taskFrame

\* wg.Add(1), go func: the goroutine starts with sem.Acquire()
task_Acquire(t) ==
  /\ taskPc[t] = "wait"
  /\ SemaphoreAcquire
  /\ taskPc' = [taskPc EXCEPT ![t] = "scanSrc"]
  /\ UNCHANGED <<rec, state, stateTrace, taskResult, open>>
  /\ taskFrame

\* faulty variant: a failed scan of the source is logged and not marked
task_ScanSource_NoMark(t) ==
  /\ taskPc[t] = "scanSrc"
  /\ \/ /\ open' = [open EXCEPT ![t] = @ \cup {"src"}]
        /\ taskPc' = [taskPc EXCEPT ![t] = "scanDst"]
        /\ UNCHANGED <<rec, state, stateTrace, taskResult>>
     \/ /\ taskResult' = [taskResult EXCEPT ![t] = "srcFail"]
        /\ taskPc' = [taskPc EXCEPT ![t] = "release"]
        /\ UNCHANGED <<rec, state, stateTrace, open>>
  /\ UNCHANGED sem
  /\ taskFrame

task_ScanSource(t) ==
  /\ taskPc[t] = "scanSrc"
  /\ \/ /\ open' = [open EXCEPT ![t] = @ \cup {"src"}]
        /\ taskPc' = [taskPc EXCEPT ![t] = "scanDst"]
        /\ UNCHANGED <<rec, state, stateTrace, taskResult>>
     \/ /\ markAsWillFail(<<"TableScan(source)", t>>)
        /\ taskResult' = [taskResult EXCEPT ![t] = "srcFail"]
        /\ taskPc' = [taskPc EXCEPT ![t] = "release"]
        /\ UNCHANGED open
  /\ UNCHANGED sem
  /\ taskFrame

\* faulty variant: a failed scan of the destination returns without the
\* Close of the source stream
task_ScanDestination_LeaksSource(t) ==
  /\ taskPc[t] = "scanDst"
  /\ \/ /\ open' = [open EXCEPT ![t] = @ \cup {"dst"}]
        /\ taskPc' = [taskPc EXCEPT ![t] = "differ"]
        /\ UNCHANGED <<rec, state, stateTrace, taskResult>>
     \/ /\ markAsWillFail(<<"TableScan(destination)", t>>)
        /\ taskResult' = [taskResult EXCEPT ![t] = "dstFail"]
        /\ taskPc' = [taskPc EXCEPT ![t] = "release"]
        /\ UNCHANGED open
     \/ /\ open' = [open EXCEPT ![t] = @ \cup {"dst"}]
        /\ markAsWillFail(<<"NewRowDiffer", t>>)
        /\ taskResult' = [taskResult EXCEPT ![t] = "newFail"]
        /\ taskPc' = [taskPc EXCEPT ![t] = "closeDst"]
  /\ UNCHANGED sem
  /\ taskFrame

\* TableScan(destination) and, when it succeeded, NewRowDiffer
task_ScanDestination(t) ==
  /\ taskPc[t] = "scanDst"
  /\ \/ /\ open' = [open EXCEPT ![t] = @ \cup {"dst"}]
        /\ taskPc' = [taskPc EXCEPT ![t] = "differ"]
        /\ UNCHANGED <<rec, state, stateTrace, taskResult>>
     \/ /\ markAsWillFail(<<"TableScan(destination)", t>>)
        /\ taskResult' = [taskResult EXCEPT ![t] = "dstFail"]
        /\ taskPc' = [taskPc EXCEPT ![t] = "closeSrc"]
        /\ UNCHANGED open
     \/ /\ open' = [open EXCEPT ![t] = @ \cup {"dst"}]
        /\ markAsWillFail(<<"NewRowDiffer", t>>)
        /\ taskResult' = [taskResult EXCEPT ![t] = "newFail"]
        /\ taskPc' = [taskPc EXCEPT ![t] = "closeDst"]
  /\ UNCHANGED sem
  /\ taskFrame

\* faulty variant: a clean report marks the run as failing too
task_GoReturned_MarksClean(t, outcome) ==
  /\ taskPc[t] = "differ"
  /\ taskPc' = [taskPc EXCEPT ![t] = "closeDst"]
  /\ \/ /\ outcome = "goErr"
        /\ taskResult' = [taskResult EXCEPT ![t] = "goErr"]
        /\ UNCHANGED <<rec, state, stateTrace>>
     \/ /\ outcome = "differences"
        /\ taskResult' = [taskResult EXCEPT ![t] = "differences"]
        /\ markAsWillFail(<<"has differences", t>>)
     \/ /\ outcome = "clean"
        /\ taskResult' = [taskResult EXCEPT ![t] = "clean"]
        /\ markAsWillFail(<<"has differences", t>>)
  /\ UNCHANGED <<sem, open>>
  /\ taskFrame

\* faulty variant: a clean report sets the state back to Diff
task_GoReturned_ResetsState(t, outcome) ==
  /\ taskPc[t] = "differ"
  /\ taskPc' = [taskPc EXCEPT ![t] = "closeDst"]
  /\ \/ /\ outcome = "goErr"
        /\ taskResult' = [taskResult EXCEPT ![t] = "goErr"]
        /\ UNCHANGED <<rec, state, stateTrace>>
     \/ /\ outcome = "differences"
        /\ taskResult' = [taskResult EXCEPT ![t] = "differences"]
        /\ markAsWillFail(<<"has differences", t>>)
     \/ /\ outcome = "clean"
        /\ taskResult' = [taskResult EXCEPT ![t] = "clean"]
        /\ SetState(WorkerStateDiff)
        /\ UNCHANGED rec
  /\ UNCHANGED <<sem, open>>
  /\ taskFrame

\* what follows differ.Go: an error of Go is logged, a report with
\* differences is marked, a clean report is logged
task_GoReturned(t, outcome) ==
  /\ taskPc[t] = "differ"
  /\ taskPc' = [taskPc EXCEPT ![t] = "closeDst"]
  /\ \/ /\ outcome = "goErr"
        /\ taskResult' = [taskResult EXCEPT ![t] = "goErr"]
        /\ UNCHANGED <<rec, state, stateTrace>>
     \/ /\ outcome = "differences"
        /\ taskResult' = [taskResult EXCEPT ![t] = "differences"]
        /\ markAsWillFail(<<"has differences", t>>)
     \/ /\ outcome = "clean"
        /\ taskResult' = [taskResult EXCEPT ![t] = "clean"]
        /\ UNCHANGED <<rec, state, stateTrace>>
  /\ UNCHANGED <<sem, open>>
  /\ taskFrame

\* differ.Go: fails, finds differences, or finds none
task_Go(t) ==
  \E outcome \in {"goErr", "differences", "clean"} : task_GoReturned(t, outcome)

\* the deferred calls, last deferred first
task_CloseDestination(t) ==
  /\ taskPc[t] = "closeDst"
  /\ open' = [open EXCEPT ![t] = @ \ {"dst"}]
  /\ taskPc' = [taskPc EXCEPT ![t] = "closeSrc"]
  /\ UNCHANGED <<rec, state, stateTrace, taskResult, sem>>
  /\ taskFrame

task_CloseSource(t) ==
  /\ taskPc[t] = "closeSrc"
  /\ open' = [open EXCEPT ![t] = @ \ {"src"}]
  /\ taskPc' = [taskPc EXCEPT ![t] = "release"]
  /\ UNCHANGED <<rec, state, stateTrace, taskResult, sem>>
  /\ taskFrame

\* sem.Release() and wg.Done()
\* faulty variant: the goroutine ends without sem.Release()
task_Release_KeepsPermit(t) ==
  /\ taskPc[t] = "release"
  /\ UNCHANGED sem
  /\ taskPc' = [taskPc EXCEPT ![t] = "done"]
  /\ UNCHANGED <<rec, state, stateTrace, taskResult, open>>
  /\ taskFrame

task_Release(t) ==
  /\ taskPc[t] = "release"
  /\ SemaphoreRelease
  /\ taskPc' = [taskPc EXCEPT ![t] = "done"]
  /\ UNCHANGED <<rec, state, stateTrace, taskResult, open>>
  /\ taskFrame

\* faulty variant: diff returns as soon as an error has been recorded
diff_return_OnFirstError ==
  /\ pc = "diff_wait2"
  /\ \/ \A t \in Tables : taskPc[t] \in {"none", "done"}
     \/ rec # {}
  /\ IF rec # {} THEN PhaseFailed(4) ELSE PhaseReturned(4)
  /\ UNCHANGED <<state, ctxDone, cerr, retErr, restVars, targetVars, cleanVars,
                 worldVars, syncVars, diffVars, stateTrace, phases,
                 checksPassed, cancelPhase>>

\* faulty variant: diff returns nil whatever has been recorded
diff_return_AlwaysNil ==
  /\ pc = "diff_wait2"
  /\ \A t \in Tables : taskPc[t] \in {"none", "done"}
  /\ PhaseReturned(4)
  /\ UNCHANGED <<state, ctxDone, cerr, retErr, restVars, targetVars,
                 cleanVars, worldVars, syncVars, diffVars, stateTrace, phases,
                 checksPassed, cancelPhase>>

\* wg.Wait() of the table diffs and the return of diff
diff_return ==
  /\ pc = "diff_wait2"
  /\ \A t \in Tables : taskPc[t] \in {"none", "done"}
  /\ IF rec # {} THEN PhaseFailed(4) ELSE PhaseReturned(4)
  /\ UNCHANGED <<state, ctxDone, cerr, retErr, restVars, targetVars, cleanVars,
                 worldVars, syncVars, diffVars, stateTrace, phases,
                 checksPassed, cancelPhase>>

(***************************************************************************)
(* Run: after run() returned, set state CleanUp and call cleaner.CleanUp.  *)
(***************************************************************************)
\* faulty variant: Run calls CleanUp without setting the state
Run_CleanUp_NoSetState ==
  /\ pc = "run_returned"
  /\ cleanUpCalls' = cleanUpCalls + 1
  /\ cleanIdx' = Len(cleaner)
  /\ pc' = "CleanUp"
  /\ UNCHANGED <<state, stateTrace, ctxDone, runErr, cerr, retErr, restVars,
                 targetVars, cleaner, executed, worldVars, syncVars, diffVars,
                 phases, phaseResult, checksPassed, cancelPhase>>

\* faulty variant: Run cleans up only after a run() that returned nil
Run_CleanUp_OnlyOnSuccess ==
  /\ pc = "run_returned"
  /\ SetState(WorkerStateCleanUp)
  /\ cleanUpCalls' = cleanUpCalls + 1
  /\ cleanIdx' = IF runErr = NoErr THEN Len(cleaner) ELSE 0
  /\ pc' = "CleanUp"
  /\ UNCHANGED <<ctxDone, runErr, cerr, retErr, restVars, targetVars, cleaner,
                 executed, worldVars, syncVars, diffVars, phases, phaseResult,
                 checksPassed, cancelPhase>>

Run_CleanUp ==
  /\ pc = "run_returned"
  /\ SetState(WorkerStateCleanUp)
  /\ cleanUpCalls' = cleanUpCalls + 1
  /\ cleanIdx' = Len(cleaner)
  /\ pc' = "CleanUp"
  /\ UNCHANGED <<ctxDone, runErr, cerr, retErr, restVars, targetVars, cleaner,
                 executed, worldVars, syncVars, diffVars, phases, phaseResult,
                 checksPassed, cancelPhase>>

(***************************************************************************)
(* Cleaner.CleanUp: runs the recorded actions, last recorded first; an     *)
(* action that fails is recorded as the cleanup error and the remaining    *)
(* actions are still attempted.                                            *)
(***************************************************************************)
ActionEffect(a) ==
  CASE a.name = "ChangeTabletType" ->
         /\ tablet' = [tablet EXCEPT ![a.target].type = "serving"]
         /\ UNCHANGED vr
    [] a.name = "StartReplication" ->
         /\ tablet' = [tablet EXCEPT ![a.target].running = TRUE]
         /\ UNCHANGED vr
    [] a.name = "StartVReplication" ->
         /\ vr' = [vr EXCEPT !.state = "Running", !.until = NoPos]
         /\ UNCHANGED tablet

Cleaner_CleanUp ==
  /\ pc = "CleanUp"
  /\ cleanIdx > 0
  /\ executed' = Append(executed, cleaner[cleanIdx])
  /\ cleanIdx' = cleanIdx - 1
  /\ \/ ActionEffect(cleaner[cleanIdx]) /\ UNCHANGED cerr
     \/ cerr' = ErrCleanUp /\ UNCHANGED <<tablet, vr>>
  /\ UNCHANGED <<pc, state, ctxDone, runErr, retErr, restVars, targetVars, cleaner,
                 cleanUpCalls, srcLog, syncVars, diffVars, histVars,
                 cancelPhase>>

(***************************************************************************)
(* Run: the end, after CleanUp returned cerr.                              *)
(***************************************************************************)
\* faulty variant: the error of CleanUp is logged and dropped
Run_finish_DropsCerr ==
  /\ pc = "CleanUp"
  /\ cleanIdx = 0
  /\ retErr' = runErr
  /\ SetState(IF runErr # NoErr THEN WorkerStateError ELSE WorkerStateDone)
  /\ pc' = "done"
  /\ UNCHANGED <<ctxDone, runErr, cerr, restVars, targetVars, cleanVars, worldVars,
                 syncVars, diffVars, phases, phaseResult, checksPassed,
                 cancelPhase>>

\* faulty variant: the error of CleanUp replaces the error of run()
Run_finish_PrefersCerr ==
  /\ pc = "CleanUp"
  /\ cleanIdx = 0
  /\ LET err == IF cerr # NoErr THEN cerr ELSE runErr
     IN  /\ retErr' = err
         /\ SetState(IF err # NoErr THEN WorkerStateError ELSE WorkerStateDone)
  /\ pc' = "done"
  /\ UNCHANGED <<ctxDone, runErr, cerr, restVars, targetVars, cleanVars,
                 worldVars, syncVars, diffVars, phases, phaseResult,
                 checksPassed, cancelPhase>>

\* faulty variant: the error of CleanUp is returned but the state is set
\* from the error of run() alone
Run_finish_DoneOnCleanUpError ==
  /\ pc = "CleanUp"
  /\ cleanIdx = 0
  /\ retErr' = IF cerr # NoErr /\ runErr = NoErr THEN cerr ELSE runErr
  /\ SetState(IF runErr # NoErr THEN WorkerStateError ELSE WorkerStateDone)
  /\ pc' = "done"
  /\ UNCHANGED <<ctxDone, runErr, cerr, restVars, targetVars, cleanVars,
                 worldVars, syncVars, diffVars, phases, phaseResult,
                 checksPassed, cancelPhase>>

Run_finish ==
  /\ pc = "CleanUp"
  /\ cleanIdx = 0
  /\ LET err == IF cerr # NoErr /\ runErr = NoErr THEN cerr ELSE runErr
     IN  /\ retErr' = err
         /\ SetState(IF err # NoErr THEN WorkerStateError ELSE WorkerStateDone)
  /\ pc' = "done"
  /\ UNCHANGED <<ctxDone, runErr, cerr, restVars, targetVars, cleanVars, worldVars,
                 syncVars, diffVars, phases, phaseResult, checksPassed,
                 cancelPhase>>

(***************************************************************************)
(* The world outside the worker: the source primary accepts writes, the    *)
(* source tablet replicates them, the destination primary's filtered       *)
(* replication stream applies them and the destination tablet replicates   *)
(* its primary.                                                            *)
(***************************************************************************)
SourceWrite ==
  /\ srcLog < MaxWrites
  /\ srcLog' = srcLog + 1
  /\ UNCHANGED <<mainVars, ctxDone, restVars, targetVars, cleanVars, tablet, vr,
                 syncVars, diffVars, histVars, cancelPhase>>

SourceTabletApply ==
  /\ tablet["src"].running
  /\ tablet["src"].pos < srcLog
  /\ tablet' = [tablet EXCEPT !["src"].pos = @ + 1]
  /\ UNCHANGED <<mainVars, ctxDone, restVars, targetVars, cleanVars, srcLog, vr,
                 syncVars, diffVars, histVars, cancelPhase>>

VReplicationApply ==
  /\ vr.state = "Running"
  /\ vr.pos < srcLog
  /\ vr' = [vr EXCEPT !.pos = @ + 1,
                      !.state = IF vr.until # NoPos /\ vr.pos + 1 >= vr.until
                                  THEN "Stopped" ELSE "Running"]
  /\ UNCHANGED <<mainVars, ctxDone, restVars, targetVars, cleanVars, srcLog,
                 tablet, syncVars, diffVars, histVars, cancelPhase>>

DestinationTabletApply ==
  /\ tablet["dst"].running
  /\ tablet["dst"].pos < vr.pos
  /\ tablet' = [tablet EXCEPT !["dst"].pos = @ + 1]
  /\ UNCHANGED <<mainVars, ctxDone, restVars, targetVars, cleanVars, srcLog, vr,
                 syncVars, diffVars, histVars, cancelPhase>>

Next ==
  \/ init_GetKeyspace
  \/ init_GetShard
  \/ \E i \in 1..4 : run_checkDone(i)
  \/ findTargets_dst
  \/ findTargets_src
  \/ sync_GetPrimary
  \/ sync_StopVReplication
  \/ sync_ReadPos
  \/ sync_GetSourceTablet
  \/ sync_StopSource
  \/ sync_StartUntil
  \/ sync_WaitForPos
  \/ sync_PrimaryPosition
  \/ sync_GetDestTablet
  \/ sync_StopDest
  \/ sync_StartVReplication
  \/ diff_start
  \/ \E s \in Sides : diff_GetSchema(s)
  \/ diff_DiffSchema
  \/ \E t \in Tables : task_Acquire(t)
  \/ \E t \in Tables : task_ScanSource(t)
  \/ \E t \in Tables : task_ScanDestination(t)
  \/ \E t \in Tables : task_Go(t)
  \/ \E t \in Tables : task_CloseDestination(t)
  \/ \E t \in Tables : task_CloseSource(t)
  \/ \E t \in Tables : task_Release(t)
  \/ diff_return
  \/ Run_CleanUp
  \/ Cleaner_CleanUp
  \/ Run_finish
  \/ Cancel
  \/ SourceWrite
  \/ SourceTabletApply
  \/ VReplicationApply
  \/ DestinationTabletApply

Spec == Init /\ [][Next]_vars

(***************************************************************************)
(* The Row Differ: an ordered merge-compare of two row streams.  A row is  *)
(* a key and one non-key column; a stream yields its rows in strictly      *)
(* ascending key order.                                                    *)
(***************************************************************************)
\* the largest key a row can have
MaxKey == 4
Keys == 1..MaxKey

\* the non-key column of the row with key k holds the k-th letter or "x"
Letters == <<"a", "b", "c", "d", "e", "f">>
RowValues(k) == {Letters[k], "x"}

RECURSIVE StreamsFrom(_)
\* the strictly ascending streams whose keys are at least k
StreamsFrom(k) ==
  IF k > MaxKey
    THEN {<<>>}
    ELSE LET rest == StreamsFrom(k + 1)
         IN  rest \cup {<<[key |-> k, value |-> v]>> \o r :
                          v \in RowValues(k), r \in rest}

RowStreams == StreamsFrom(1)

MissingInDestination(row) ==
  [kind |-> "missing in destination", key |-> row.key,
   source |-> row.value, destination |-> "-"]

MissingInSource(row) ==
  [kind |-> "missing in source", key |-> row.key,
   source |-> "-", destination |-> row.value]

ValueMismatch(s, d) ==
  [kind |-> "value mismatch", key |-> s.key,
   source |-> s.value, destination |-> d.value]

Recorded(r, consumed, found) ==
  [processedRows |-> r.processedRows + consumed,
   discrepancies |-> r.discrepancies \o found]

HasDifferences(r) == r.discrepancies # <<>>

\* the Row Differ and the caller of Run leave the worker alone
workerVars == <<pc, state, ctxDone, runErr, cerr, retErr, topo, topoReads,
                targetVars, cleanVars, worldVars, syncVars, diffVars,
                histVars, cancelPhase>>

\* faulty variant: a source row with the smaller key is skipped and only
\* the source rows left after the destination is exhausted are recorded
differ_Go_SkipsSmallerKey ==
  /\ differPc = "Go"
  /\ LET srcLeft == srcCursor <= Len(sourceRows)
         dstLeft == dstCursor <= Len(destinationRows)
         s == sourceRows[srcCursor]
         d == destinationRows[dstCursor]
         srcFirst == IF srcLeft /\ dstLeft THEN s.key < d.key ELSE srcLeft
         dstFirst == IF srcLeft /\ dstLeft THEN s.key > d.key ELSE dstLeft
         sameKey == IF srcLeft /\ dstLeft THEN s.key = d.key ELSE FALSE
     IN  \/ /\ ~srcLeft /\ ~dstLeft
            /\ differPc' = "returned"
            /\ UNCHANGED <<srcCursor, dstCursor, report>>
         \/ /\ srcFirst
            /\ report' = Recorded(report, 1,
                                  IF dstLeft THEN <<>>
                                  ELSE <<MissingInDestination(s)>>)
            /\ srcCursor' = srcCursor + 1
            /\ UNCHANGED <<dstCursor, differPc>>
         \/ /\ dstFirst
            /\ report' = Recorded(report, 1, <<MissingInSource(d)>>)
            /\ dstCursor' = dstCursor + 1
            /\ UNCHANGED <<srcCursor, differPc>>
         \/ /\ sameKey
            /\ report' = Recorded(report, 2,
                                  IF s.value # d.value
                                    THEN <<ValueMismatch(s, d)>> ELSE <<>>)
            /\ srcCursor' = srcCursor + 1
            /\ dstCursor' = dstCursor + 1
            /\ UNCHANGED differPc
  /\ UNCHANGED <<sourceRows, destinationRows, workerVars, cmd>>

\* faulty variant: the differ returns as soon as one stream is exhausted
differ_Go_StopsAtExhaustion ==
  /\ differPc = "Go"
  /\ LET srcLeft == srcCursor <= Len(sourceRows)
         dstLeft == dstCursor <= Len(destinationRows)
         s == sourceRows[srcCursor]
         d == destinationRows[dstCursor]
         oneDone == ~(srcLeft /\ dstLeft)
         srcFirst == IF srcLeft /\ dstLeft THEN s.key < d.key ELSE FALSE
         dstFirst == IF srcLeft /\ dstLeft THEN s.key > d.key ELSE FALSE
         sameKey == IF srcLeft /\ dstLeft THEN s.key = d.key ELSE FALSE
     IN  \/ /\ oneDone
            /\ differPc' = "returned"
            /\ UNCHANGED <<srcCursor, dstCursor, report>>
         \/ /\ srcFirst
            /\ report' = Recorded(report, 1, <<MissingInDestination(s)>>)
            /\ srcCursor' = srcCursor + 1
            /\ UNCHANGED <<dstCursor, differPc>>
         \/ /\ dstFirst
            /\ report' = Recorded(report, 1, <<MissingInSource(d)>>)
            /\ dstCursor' = dstCursor + 1
            /\ UNCHANGED <<srcCursor, differPc>>
         \/ /\ sameKey
            /\ report' = Recorded(report, 2,
                                  IF s.value # d.value
                                    THEN <<ValueMismatch(s, d)>> ELSE <<>>)
            /\ srcCursor' = srcCursor + 1
            /\ dstCursor' = dstCursor + 1
            /\ UNCHANGED differPc
  /\ UNCHANGED <<sourceRows, destinationRows, workerVars, cmd>>

\* one step of the merge-compare: the current rows of the two streams are
\* compared by key; the differ returns when both streams are exhausted
differ_Go ==
  /\ differPc = "Go"
  /\ LET srcLeft == srcCursor <= Len(sourceRows)
         dstLeft == dstCursor <= Len(destinationRows)
         s == sourceRows[srcCursor]
         d == destinationRows[dstCursor]
         srcFirst == IF srcLeft /\ dstLeft THEN s.key < d.key ELSE srcLeft
         dstFirst == IF srcLeft /\ dstLeft THEN s.key > d.key ELSE dstLeft
         sameKey == IF srcLeft /\ dstLeft THEN s.key = d.key ELSE FALSE
     IN  \/ /\ ~srcLeft /\ ~dstLeft
            /\ differPc' = "returned"
            /\ UNCHANGED <<srcCursor, dstCursor, report>>
         \/ /\ srcFirst
            /\ report' = Recorded(report, 1, <<MissingInDestination(s)>>)
            /\ srcCursor' = srcCursor + 1
            /\ UNCHANGED <<dstCursor, differPc>>
         \/ /\ dstFirst
            /\ report' = Recorded(report, 1, <<MissingInSource(d)>>)
            /\ dstCursor' = dstCursor + 1
            /\ UNCHANGED <<srcCursor, differPc>>
         \/ /\ sameKey
            /\ report' = Recorded(report, 2,
                                  IF s.value # d.value
                                    THEN <<ValueMismatch(s, d)>> ELSE <<>>)
            /\ srcCursor' = srcCursor + 1
            /\ dstCursor' = dstCursor + 1
            /\ UNCHANGED differPc
  /\ UNCHANGED <<sourceRows, destinationRows, workerVars, cmd>>

\* a read of one of the streams fails: Go returns an error
differ_ReadError ==
  /\ differPc = "Go"
  /\ differPc' = "failed"
  /\ UNCHANGED <<sourceRows, destinationRows, srcCursor, dstCursor, report,
                 workerVars, cmd>>

\* the table whose diff runs the Row Differ: the first of the schema
DiffedTable == CHOOSE t \in Tables : \A u \in Tables : t <= u

\* faulty variant: the goroutine marks the table without asking the report
task_GoDone_NoCheck ==
  /\ differPc \in {"returned", "failed"}
  /\ task_GoReturned(DiffedTable,
                     IF differPc = "failed" THEN "goErr" ELSE "differences")

\* differ.Go has returned to the table-diff goroutine
task_GoDone ==
  /\ differPc \in {"returned", "failed"}
  /\ task_GoReturned(DiffedTable,
                     IF differPc = "failed" THEN "goErr"
                     ELSE IF HasDifferences(report) THEN "differences"
                     ELSE "clean")

(***************************************************************************)
(* The Row Differ at work: the worker has synchronized replication, both   *)
(* schemas hold every table, the goroutine of DiffedTable has opened its   *)
(* two streams and calls differ.Go; the streams yield any two strictly     *)
(* ascending row sequences.                                                *)
(***************************************************************************)
DifferInit ==
  /\ pc = "diff_wait2"
  /\ state = WorkerStateDiff
  /\ ctxDone = FALSE
  /\ runErr = NoErr
  /\ cerr = NoErr
  /\ retErr = NoErr
  /\ topo = [servedFroms |-> 1, sourceShards |-> 1, tables |-> 1,
             hasPrimary |-> TRUE]
  /\ topoReads = 2
  /\ destinationAlias = TRUE
  /\ sourceAlias = TRUE
  /\ cleaner = <<ChangeTabletTypeAction("dst"), ChangeTabletTypeAction("src"),
                 VReplicationAction, StartReplicationAction("src"),
                 StartReplicationAction("dst")>>
  /\ cleanIdx = 0
  /\ executed = <<>>
  /\ srcLog = 0
  /\ tablet = [s \in Sides |->
                 [pos |-> 0, running |-> FALSE, type |-> "drained"]]
  /\ vr = [state |-> "Running", pos |-> 0, until |-> NoPos]
  /\ vreplicationPos = NoPos
  /\ mysqlPos = NoPos
  /\ masterPos = NoPos
  /\ fetchPc = [s \in Sides |-> "done"]
  /\ schema = [s \in Sides |-> Tables]
  /\ rec = {}
  /\ sem = 1
  /\ taskPc = [t \in Tables |-> IF t = DiffedTable THEN "differ" ELSE "wait"]
  /\ taskResult = [t \in Tables |-> "none"]
  /\ open = [t \in Tables |-> IF t = DiffedTable THEN Sides ELSE {}]
  /\ stateTrace = <<WorkerStateInit, WorkerStateFindTargets,
                    WorkerStateSyncReplication, WorkerStateDiff>>
  /\ phases = PhaseOrder
  /\ phaseResult = <<"ok", "ok", "ok", "none">>
  /\ checksPassed = 3
  /\ cancelPhase = 0
  /\ cleanUpCalls = 0
  /\ sourceRows \in RowStreams
  /\ destinationRows \in RowStreams
  /\ srcCursor = 1
  /\ dstCursor = 1
  /\ report = NoReport
  /\ differPc = "Go"
  /\ cmd = CommandIdle

DifferNext ==
  \/ differ_Go
  \/ differ_ReadError
  \/ task_GoDone

DifferSpec == DifferInit /\ [][DifferNext]_vars

(***************************************************************************)
(* Properties.                                                             *)
(***************************************************************************)
CountIn(seq, x) == Cardinality({i \in DOMAIN seq : seq[i] = x})
IsPrefix(s, t) == Len(s) <= Len(t) /\ \A i \in 1..Len(s) : s[i] = t[i]
Reverse(s) == [i \in 1..Len(s) |-> s[Len(s) + 1 - i]]
OpenTasks == {t \in Tables : open[t] # {}}

\* C1: in every execution of Run the state CleanUp is set at most once and
\* cleaner.CleanUp is called at most once, neither before run() has
\* returned, and when Run has returned each has happened exactly once.
CleanUpExactlyOnce ==
  /\ CountIn(stateTrace, WorkerStateCleanUp) <= 1
  /\ cleanUpCalls <= 1
  /\ (CountIn(stateTrace, WorkerStateCleanUp) > 0 \/ cleanUpCalls > 0)
       => RunReturned
  /\ pc = "done" => /\ CountIn(stateTrace, WorkerStateCleanUp) = 1
                    /\ cleanUpCalls = 1

\* Run has returned after synchronizeReplication failed, and cleaned up once
CleanUpAfterSyncFailure ==
  /\ pc = "done"
  /\ phaseResult[3] = "err"
  /\ cleanUpCalls = 1
  /\ CountIn(stateTrace, WorkerStateCleanUp) = 1

\* C2: when Run has returned the state is Error if and only if run() or
\* CleanUp returned an error and Done otherwise, and Run returned nil
\* exactly when the state is Done.
TerminalStateMatchesErrors ==
  pc = "done" =>
    /\ state \in {WorkerStateError, WorkerStateDone}
    /\ (state = WorkerStateError) <=> (runErr # NoErr \/ cerr # NoErr)
    /\ (retErr = NoErr) <=> (state = WorkerStateDone)

\* Run has returned after a run() without error and a CleanUp with one
ErrorFromCleanUpOnly ==
  /\ pc = "done"
  /\ runErr = NoErr
  /\ cerr # NoErr
  /\ state = WorkerStateError

\* C3: the phases are entered in the order init, findTargets,
\* synchronizeReplication, diff; a phase is entered only after every earlier
\* phase returned nil and every earlier checkDone passed; after a phase
\* returned an error no later phase is entered and run() has returned, so
\* that Run cleans up.
PhasesInOrder ==
  /\ IsPrefix(phases, PhaseOrder)
  /\ \A i \in 2..Len(phases) :
       phaseResult[i - 1] = "ok" /\ checksPassed >= i - 1
  /\ \A i \in 1..4 :
       phaseResult[i] = "err" => Len(phases) = i /\ RunReturned
  /\ pc = "done" => cleanUpCalls = 1

\* findTargets failed and the worker is cleaning up
CleaningUpAfterFindTargetsFailed ==
  /\ pc = "CleanUp"
  /\ phaseResult[2] = "err"
  /\ phases = <<"init", "findTargets">>

\* C4 as stated: when the context is cancelled during phase i no later
\* phase is entered, CleanUp is run, and Run ends in state Error returning
\* the cancellation error.
CancelReturnsCancelError ==
  cancelPhase \in 1..4 =>
    /\ Len(phases) <= cancelPhase
    /\ pc = "done" => /\ cleanUpCalls = 1
                      /\ Len(executed) = Len(cleaner)
                      /\ state = WorkerStateError
                      /\ retErr = ErrCanceled

\* C4 as amended: when the context is cancelled during phase i no later
\* phase is entered, CleanUp is run, and Run ends in state Error; it returns
\* the cancellation error when phase i returned nil and the error of phase
\* i when phase i failed.
CancelAbortsRun ==
  cancelPhase \in 1..4 =>
    /\ Len(phases) <= cancelPhase
    /\ pc = "done" => /\ cleanUpCalls = 1
                      /\ Len(executed) = Len(cleaner)
                      /\ state = WorkerStateError
                      /\ retErr = IF phaseResult[cancelPhase] = "err"
                                    THEN PhaseErr[cancelPhase]
                                    ELSE ErrCanceled

\* the context was cancelled during a diff phase that returned nil
CanceledAfterCleanDiff ==
  /\ pc = "done"
  /\ cancelPhase = 4
  /\ phaseResult[4] = "ok"
  /\ retErr = ErrCanceled
  /\ state = WorkerStateError

\* C5: when Run has returned, CleanUp has run every recorded action exactly
\* once, the last recorded first; while it runs, what it has run is the
\* beginning of that order.
CleanupTotality ==
  /\ IsPrefix(executed, Reverse(cleaner))
  /\ pc = "done" => executed = Reverse(cleaner)
  /\ \A i, j \in 1..Len(executed) : executed[i] = executed[j] => i = j

\* synchronizeReplication failed after the source tablet was stopped
FourActionsUndoneAfterSyncFailure ==
  /\ pc = "done"
  /\ phaseResult[3] = "err"
  /\ cleaner = <<ChangeTabletTypeAction("dst"), ChangeTabletTypeAction("src"),
                 VReplicationAction, StartReplicationAction("src")>>
  /\ executed = Reverse(cleaner)

\* C6: after synchronizeReplication failed and CleanUp succeeded, the
\* destination primary's stream runs without a stop position and neither
\* tablet is left with its replication stopped.
SyncFailureLeavesNoMutation ==
  (pc = "done" /\ phaseResult[3] = "err" /\ cerr = NoErr) =>
    /\ vr.state = "Running"
    /\ vr.until = NoPos
    /\ tablet["src"].running
    /\ tablet["dst"].running

\* the diff phase can run: synchronizeReplication returned nil and CleanUp
\* has not begun to undo it
SyncHolds == phaseResult[3] = "ok" /\ executed = <<>>

\* C7: at the step at which synchronizeReplication returns nil the source
\* tablet is stopped at mysqlPos, which is at or past vreplicationPos, the
\* stream has applied the source writes up to mysqlPos and no further, the
\* primary's position read after the catch-up is that position, and the
\* destination tablet is stopped at or past masterPos and holds no source
\* write beyond mysqlPos; from then until CleanUp both tablets stay stopped
\* with the same source writes applied, whatever is written meanwhile.
SyncReachesSamePoint ==
  /\ [](SyncHolds => /\ ~tablet["src"].running
                     /\ ~tablet["dst"].running
                     /\ tablet["src"].pos = tablet["dst"].pos)
  /\ [][(pc = "sync_StartVReplication" /\ pc' = "checkDone3") =>
          /\ ~tablet["src"].running
          /\ tablet["src"].pos = mysqlPos
          /\ mysqlPos >= vreplicationPos
          /\ vr.pos = mysqlPos
          /\ masterPos = mysqlPos
          /\ ~tablet["dst"].running
          /\ tablet["dst"].pos >= masterPos
          /\ tablet["dst"].pos <= mysqlPos]_vars

\* synchronizeReplication returned nil with a write caught up on both
\* sides
SyncedPastAWrite ==
  /\ pc = "checkDone3"
  /\ phaseResult[3] = "ok"
  /\ tablet["src"].pos > 0
  /\ tablet["dst"].pos = tablet["src"].pos

\* C8: a table-diff goroutine is past sem.Acquire, or holds a row stream,
\* only in a run whose synchronizeReplication returned nil.
NoScanBeforeSync ==
  \A t \in Tables :
    (taskPc[t] \notin {"none", "wait"} \/ open[t] # {})
      => phaseResult[3] = "ok"

\* a table diff holds both row streams
ScanningAfterSync ==
  \E t \in Tables : open[t] = {"src", "dst"} /\ phaseResult[3] = "ok"

\* C9: the goroutines that hold an open row stream are never more than the
\* permits taken, and the permits taken are never more than
\* parallelDiffsCount.
BoundedConcurrency ==
  /\ Cardinality(OpenTasks) <= sem
  /\ sem <= parallelDiffsCount

\* every permit is held by a goroutine with an open stream while another
\* goroutine waits for one
CapReachedWithWaiter ==
  /\ Cardinality(OpenTasks) = parallelDiffsCount
  /\ \E t \in Tables : taskPc[t] = "wait"

\* C10: when diff has returned after both schemas were fetched, the
\* goroutine of every table of the destination schema has run to its end
\* and left a result.
AllTablesAttempted ==
  (phaseResult[4] # "none" /\ schema["dst"] # NoSchema
     /\ schema["src"] # NoSchema) =>
    \A t \in schema["dst"] : taskPc[t] = "done" /\ taskResult[t] # "none"

\* one table has differences, another one was compared and is clean
CleanTableBesideFailedTable ==
  /\ phaseResult[4] = "err"
  /\ \E a, b \in Tables : /\ taskResult[a] = "differences"
                          /\ taskResult[b] = "clean"

\* the error a table-diff goroutine records for the way it ended
TableError(t) ==
  CASE taskResult[t] = "srcFail" -> <<"TableScan(source)", t>>
    [] taskResult[t] = "dstFail" -> <<"TableScan(destination)", t>>
    [] taskResult[t] = "newFail" -> <<"NewRowDiffer", t>>
    [] taskResult[t] = "differences" -> <<"has differences", t>>

MarkedTables ==
  {t \in Tables :
     taskResult[t] \in {"srcFail", "dstFail", "newFail", "differences"}}

\* C11: for every table whose source scan, destination scan or NewRowDiffer
\* failed, or whose report has differences, the error of that table is in
\* the error recorder and the state has been set to DiffWillFail, once per
\* such table at least; it stays DiffWillFail until Run sets CleanUp.
TableFailuresMarked ==
  /\ \A t \in MarkedTables : TableError(t) \in rec
  /\ CountIn(stateTrace, WorkerStateDiffWillFail) >= Cardinality(MarkedTables)
  /\ (MarkedTables # {} /\ pc \notin {"CleanUp", "done"})
       => state = WorkerStateDiffWillFail

\* the scan of the source failed for one table, another table has differences
ScanFailureBesideDifferences ==
  /\ pc = "diff_wait2"
  /\ \E a, b \in Tables : /\ taskResult[a] = "srcFail"
                          /\ taskResult[b] = "differences"
  /\ Cardinality(rec) = 2
  /\ state = WorkerStateDiffWillFail

\* C12: when diff has returned after the join of the table diffs, it
\* returned nil if and only if the error recorder is empty.
DiffCleanIffNothingRecorded ==
  (phaseResult[4] # "none" /\ schema["dst"] # NoSchema
     /\ schema["src"] # NoSchema) =>
    ((phaseResult[4] = "ok") <=> (rec = {}))

\* diff returned an error although every table was compared and is clean:
\* the recorder holds a difference of the schemas
DiffFailedOnSchemaDifferenceOnly ==
  /\ phaseResult[4] = "err"
  /\ schema["dst"] = Tables
  /\ \A t \in Tables : taskResult[t] = "clean"
  /\ rec = {<<"schema", NumTables>>}

\* C13 as stated: when DiffWillFail was set during diff and CleanUp returned
\* nil, the state after Run returned is still DiffWillFail.
WillFailIsTerminal ==
  (pc = "done" /\ CountIn(stateTrace, WorkerStateDiffWillFail) > 0
     /\ cerr = NoErr) => state = WorkerStateDiffWillFail

\* C13 as amended: when DiffWillFail was set during diff and CleanUp
\* returned nil, Run replaces DiffWillFail by CleanUp and then by Error, and
\* returns the error of diff; the state is never Done.
WillFailEndsInError ==
  (pc = "done" /\ CountIn(stateTrace, WorkerStateDiffWillFail) > 0
     /\ cerr = NoErr) =>
    /\ state = WorkerStateError
    /\ retErr = ErrDiff
    /\ stateTrace[Len(stateTrace) - 1] = WorkerStateCleanUp
    /\ stateTrace[Len(stateTrace) - 2] = WorkerStateDiffWillFail

\* Run has returned after a table had differences and every recorded action
\* was undone without error
ReturnedAfterDifferencesAndCleanUp ==
  /\ pc = "done"
  /\ \E t \in Tables : taskResult[t] = "differences"
  /\ cerr = NoErr
  /\ Len(executed) = 5
  /\ state = WorkerStateError

\* the errors a value returned by Run carries
ErrorsIn(e) == IF e = NoErr THEN {} ELSE {e}

\* C14 as stated: when run() and CleanUp both returned an error, the error
\* Run returns carries both.
BothErrorsReturned ==
  (pc = "done" /\ runErr # NoErr /\ cerr # NoErr) =>
    ErrorsIn(retErr) = {runErr, cerr}

\* C14 as amended: when run() and CleanUp both returned an error, Run
\* returns the error of run() alone (the error of CleanUp is only logged)
\* and the state is Error.
RunErrorReturnedAlone ==
  (pc = "done" /\ runErr # NoErr /\ cerr # NoErr) =>
    /\ retErr = runErr
    /\ ErrorsIn(retErr) = {runErr}
    /\ state = WorkerStateError

\* synchronizeReplication failed and then CleanUp failed
SyncAndCleanUpFailed ==
  /\ pc = "done"
  /\ runErr = ErrSync
  /\ cerr = ErrCleanUp
  /\ retErr = ErrSync

\* C15: when an action of the chain failed during CleanUp, every action of
\* the chain has still been run, last recorded first, CleanUp returned an
\* error, and the state after Run returned is Error with an error returned.
CleanUpFailureRunsAllActions ==
  (pc = "done" /\ cerr # NoErr) =>
    /\ executed = Reverse(cleaner)
    /\ state = WorkerStateError
    /\ retErr # NoErr

\* the action run first (restart replication on the destination tablet)
\* failed and the action run after it (restart replication on the source
\* tablet) took effect
LaterActionRanAfterFailure ==
  /\ pc = "done"
  /\ cerr # NoErr
  /\ Len(cleaner) = 5
  /\ Len(executed) = 5
  /\ ~tablet["dst"].running
  /\ tablet["src"].running
  /\ state = WorkerStateError

\* Run has returned and nothing went wrong on the way: the context was not
\* cancelled, init, findTargets and synchronizeReplication returned nil, the
\* two schemas were fetched and are equal, the report of every table is
\* clean and CleanUp returned nil
UndisturbedRun ==
  /\ pc = "done"
  /\ ~ctxDone
  /\ \A i \in 1..3 : phaseResult[i] = "ok"
  /\ schema["dst"] # NoSchema
  /\ schema["src"] = schema["dst"]
  /\ \A t \in schema["dst"] : taskResult[t] = "clean"
  /\ cerr = NoErr

\* C16: in an undisturbed run the states set are Init, FindTargets,
\* SyncReplication, Diff, CleanUp, Done in this order and no other (neither
\* DiffWillFail nor Error), the four phases were entered, and Run returns
\* nil.
UndisturbedRunEndsDone ==
  UndisturbedRun =>
    /\ stateTrace = <<WorkerStateInit, WorkerStateFindTargets,
                      WorkerStateSyncReplication, WorkerStateDiff,
                      WorkerStateCleanUp, WorkerStateDone>>
    /\ state = WorkerStateDone
    /\ phases = PhaseOrder
    /\ retErr = NoErr

\* an undisturbed run over every table, with writes on the source meanwhile
UndisturbedRunOverAllTables ==
  /\ UndisturbedRun
  /\ schema["dst"] = Tables
  /\ srcLog = MaxWrites
  /\ state = WorkerStateDone

\* the topology passes every check of init
TopologyPasses ==
  /\ topo.servedFroms # 0
  /\ topo.sourceShards # 0
  /\ topo.sourceShards = 1
  /\ topo.tables # 0
  /\ topo.hasPrimary

\* C17: init returns nil if and only if GetKeyspace and GetShard succeeded
\* and the keyspace has a ServedFrom, the shard has source shards, exactly
\* one, that source shard has tables and the shard has a primary; when init
\* returned an error no later phase is entered.
InitSucceedsIffTopologyPasses ==
  /\ phaseResult[1] # "none" =>
       ((phaseResult[1] = "ok") <=> (TopologyPasses /\ topoReads = 2))
  /\ phaseResult[1] = "err" => phases = <<"init">> /\ RunReturned
  /\ ~TopologyPasses => Len(phases) <= 1

\* both reads succeeded and init failed on a shard with two source shards,
\* which is otherwise in order
InitFailedOnTwoSourceShards ==
  /\ pc = "done"
  /\ phaseResult[1] = "err"
  /\ topoReads = 2
  /\ topo = [servedFroms |-> 1, sourceShards |-> 2, tables |-> 1,
             hasPrimary |-> TRUE]
  /\ phases = <<"init">>

WorkerStates ==
  <<WorkerStateNotStarted, WorkerStateInit, WorkerStateFindTargets,
    WorkerStateSyncReplication, WorkerStateDiff, WorkerStateDiffWillFail,
    WorkerStateCleanUp, WorkerStateDone, WorkerStateError>>

\* the place of a state in the order; Done and Error share the last place
StateRank ==
  [s \in {WorkerStates[i] : i \in DOMAIN WorkerStates} |->
     IF s = WorkerStateError
       THEN Len(WorkerStates) - 1
       ELSE CHOOSE i \in DOMAIN WorkerStates : WorkerStates[i] = s]

\* C18: the state is one of the worker states and is the one set last (or
\* NotStarted); no SetState sets a state that comes before the state set
\* before it in the order NotStarted, Init, FindTargets, SyncReplication,
\* Diff, DiffWillFail, CleanUp, Done or Error; nothing is set after Done or
\* Error.
StateOnlyMovesForward ==
  /\ state \in DOMAIN StateRank
  /\ state = IF stateTrace = <<>> THEN WorkerStateNotStarted
                                  ELSE stateTrace[Len(stateTrace)]
  /\ \A i \in 1..(Len(stateTrace) - 1) :
       /\ StateRank[stateTrace[i]] <= StateRank[stateTrace[i + 1]]
       /\ stateTrace[i] \notin {WorkerStateDone, WorkerStateError}

\* DiffWillFail was set, set again by a second table, and Run went on to
\* CleanUp and Error
WillFailTwiceThenError ==
  /\ pc = "done"
  /\ CountIn(stateTrace, WorkerStateDiffWillFail) >= 2
  /\ state = WorkerStateError

\* C19: when the two streams yield the same rows the report never holds a
\* discrepancy and HasDifferences is false, every row of both streams is
\* processed when Go returns, and the goroutine of the table records no
\* error and leaves the state at Diff.
IdenticalStreamsAreClean ==
  sourceRows = destinationRows =>
    /\ report.discrepancies = <<>>
    /\ ~HasDifferences(report)
    /\ differPc = "returned" => report.processedRows = 2 * Len(sourceRows)
    /\ taskResult[DiffedTable] \in {"none", "clean", "goErr"}
    /\ differPc = "returned" => taskResult[DiffedTable] \in {"none", "clean"}
    /\ rec = {}
    /\ state = WorkerStateDiff
    /\ CountIn(stateTrace, WorkerStateDiffWillFail) = 0

\* two equal streams of MaxKey rows have been compared and the goroutine
\* has found the report clean
FullStreamsComparedClean ==
  /\ sourceRows = destinationRows
  /\ Len(sourceRows) = MaxKey
  /\ differPc = "returned"
  /\ taskResult[DiffedTable] = "clean"

KeysOf(rows) == {rows[i].key : i \in DOMAIN rows}

\* the entries of the report about key k
EntriesFor(k) ==
  {n \in DOMAIN report.discrepancies : report.discrepancies[n].key = k}

\* C20: a row whose key occurs in the source stream only is never recorded
\* twice and never as anything but missing in destination, and when Go has
\* returned it is recorded exactly once, as missing in destination.
SourceOnlyRowsReportedOnce ==
  \A i \in DOMAIN sourceRows :
    sourceRows[i].key \notin KeysOf(destinationRows) =>
      /\ Cardinality(EntriesFor(sourceRows[i].key)) <= 1
      /\ \A n \in EntriesFor(sourceRows[i].key) :
           report.discrepancies[n] = MissingInDestination(sourceRows[i])
      /\ differPc = "returned" =>
           Cardinality(EntriesFor(sourceRows[i].key)) = 1

\* Go has returned after a source row below the first destination row and a
\* source row above the last destination row, both without counterpart
SourceOnlyRowsBeforeAndAfter ==
  /\ differPc = "returned"
  /\ destinationRows # <<>>
  /\ \E i, j \in DOMAIN sourceRows :
       /\ sourceRows[i].key < destinationRows[1].key
       /\ sourceRows[j].key > destinationRows[Len(destinationRows)].key
  /\ Len(report.discrepancies) >= 2

\* the set-based reference of the report
OnlyIn(rows, others) ==
  {rows[i] : i \in {n \in DOMAIN rows : rows[n].key \notin KeysOf(others)}}

ReferenceReport ==
  {MissingInDestination(r) : r \in OnlyIn(sourceRows, destinationRows)}
    \cup {MissingInSource(r) : r \in OnlyIn(destinationRows, sourceRows)}
    \cup {ValueMismatch(sourceRows[i], destinationRows[j]) :
            <<i, j>> \in {p \in (DOMAIN sourceRows) \X (DOMAIN destinationRows) :
                            /\ sourceRows[p[1]].key = destinationRows[p[2]].key
                            /\ sourceRows[p[1]].value
                                 # destinationRows[p[2]].value}}

\* the example of the specification: orders on the source and the destination
ExampleSource ==
  <<[key |-> 1, value |-> "a"], [key |-> 2, value |-> "b"],
    [key |-> 4, value |-> "d"]>>
ExampleDestination ==
  <<[key |-> 1, value |-> "a"], [key |-> 3, value |-> "c"],
    [key |-> 4, value |-> "d"]>>

\* C21: when Go has returned, the discrepancies of the report are, without
\* repetition, those of the set-based reference (rows only in the source as
\* missing in destination, rows only in the destination as missing in
\* source, common keys with differing columns as value mismatch), both
\* cursors are past the last row and every row was processed; the example
\* streams yield missing in destination (2,b), missing in source (3,c), no
\* mismatch and HasDifferences.
ReportEqualsReference ==
  differPc = "returned" =>
    LET D == report.discrepancies
    IN  /\ {D[n] : n \in DOMAIN D} = ReferenceReport
        /\ Len(D) = Cardinality(ReferenceReport)
        /\ srcCursor = Len(sourceRows) + 1
        /\ dstCursor = Len(destinationRows) + 1
        /\ report.processedRows = Len(sourceRows) + Len(destinationRows)
        /\ HasDifferences(report) <=> (sourceRows # destinationRows)
        /\ (sourceRows = ExampleSource /\ destinationRows = ExampleDestination)
             => /\ D = <<MissingInDestination(ExampleSource[2]),
                         MissingInSource(ExampleDestination[2])>>
                /\ HasDifferences(report)

\* the example streams have been compared and the table is marked
ExampleCompared ==
  /\ differPc = "returned"
  /\ sourceRows = ExampleSource
  /\ destinationRows = ExampleDestination
  /\ Len(report.discrepancies) = 2
  /\ taskResult[DiffedTable] = "differences"

\* C22: Run ends in state Done, returning nil, only if both schemas were
\* fetched and every table of the destination schema was scanned on both
\* sides and compared by the Row Differ to a report without differences.
DoneOnlyIfEveryTableComparedClean ==
  (pc = "done" /\ state = WorkerStateDone) =>
    /\ retErr = NoErr
    /\ schema["dst"] # NoSchema
    /\ schema["src"] # NoSchema
    /\ \A t \in schema["dst"] : taskResult[t] = "clean"

\* the calls of synchronizeReplication, in the order of the code
SyncOrder ==
  <<"sync_GetPrimary", "sync_StopVReplication", "sync_ReadPos",
    "sync_GetSourceTablet", "sync_StopSource", "sync_StartUntil",
    "sync_WaitForPos", "sync_PrimaryPosition", "sync_GetDestTablet",
    "sync_StopDest", "sync_StartVReplication">>

SyncIndex ==
  [p \in {SyncOrder[i] : i \in DOMAIN SyncOrder} |->
     CHOOSE i \in DOMAIN SyncOrder : SyncOrder[i] = p]

InSync == pc \in DOMAIN SyncIndex

\* synchronizeReplication is past the call p: p has returned without error
SyncPast(p) == InSync /\ SyncIndex[pc] > SyncIndex[p]

InChain(a) == \E i \in DOMAIN cleaner : cleaner[i] = a

\* C23: whenever synchronizeReplication is about to issue a call after
\* StopVReplication, after StopReplicationMinimum on the source or after
\* StopReplicationMinimum on the destination returned without error, and
\* when it has returned nil, the inverse of that mutation is in the chain;
\* a call that fails leaves the chain as it is.
InverseRegisteredBeforeNextCall ==
  /\ [](/\ (SyncPast("sync_StopVReplication") \/ phaseResult[3] = "ok")
            => InChain(VReplicationAction)
        /\ (SyncPast("sync_StopSource") \/ phaseResult[3] = "ok")
            => InChain(StartReplicationAction("src"))
        /\ (SyncPast("sync_StopDest") \/ phaseResult[3] = "ok")
            => InChain(StartReplicationAction("dst")))
  /\ [][(InSync /\ pc' = "run_returned") => cleaner' = cleaner]_vars

\* the last call of synchronizeReplication failed and Run finds the three
\* inverses in the chain
LastCallFailedWithInversesInChain ==
  /\ pc = "run_returned"
  /\ phaseResult[3] = "err"
  /\ InChain(VReplicationAction)
  /\ InChain(StartReplicationAction("src"))
  /\ InChain(StartReplicationAction("dst"))

\* what a call of synchronizeReplication that returned without error did
SyncCallEffect ==
  CASE pc = "sync_StopVReplication" -> vr'.state = "Stopped"
    [] pc = "sync_ReadPos" -> vreplicationPos' = vr.pos
    [] pc = "sync_StopSource" -> /\ tablet["src"].pos >= vreplicationPos
                                 /\ ~tablet'["src"].running
                                 /\ mysqlPos' = tablet'["src"].pos
    [] pc = "sync_StartUntil" -> vr'.until = mysqlPos
    [] pc = "sync_WaitForPos" -> vr.pos >= mysqlPos
    [] pc = "sync_PrimaryPosition" -> masterPos' = vr.pos
    [] pc = "sync_StopDest" -> /\ tablet["dst"].pos >= masterPos
                               /\ ~tablet'["dst"].running
    [] pc = "sync_StartVReplication" -> /\ vr'.state = "Running"
                                        /\ vr'.until = NoPos
    [] OTHER -> TRUE

\* C24: synchronizeReplication issues its calls one at a time in the order
\* of SyncOrder; a call is followed by the next one only when it returned
\* without error, having done its part (stream stopped, Pv read, source
\* stopped at Ps not before Pv, stream resumed up to Ps, stream at Ps, Pm
\* read, destination stopped not before Pm, stream resumed without stop
\* position); otherwise synchronizeReplication returns the error.
SyncCallsInOrder ==
  [][(InSync /\ pc' # pc) =>
       \/ pc' = "run_returned" /\ phaseResult'[3] = "err"
       \/ /\ pc' = IF SyncIndex[pc] < Len(SyncOrder)
                     THEN SyncOrder[SyncIndex[pc] + 1] ELSE "checkDone3"
          /\ SyncCallEffect]_vars

\* the source was stopped past the position read in step 1, the stream and
\* the destination tablet have caught up, and step 5 is next
AllStoppedBeforeLastCall ==
  /\ pc = "sync_StartVReplication"
  /\ vreplicationPos = 0
  /\ mysqlPos = MaxWrites
  /\ masterPos = MaxWrites
  /\ tablet["dst"].pos = MaxWrites

\* step 2 of synchronizeReplication has returned without error
StepTwoDone == SyncPast("sync_StopSource") \/ phaseResult[3] = "ok"

\* C25 as stated: after step 2 succeeded the chain holds the action that
\* restarts replication on the source tablet and no longer the action of
\* step 1 that restarts the stream.
StreamActionReplacedByStepTwo ==
  StepTwoDone => /\ InChain(StartReplicationAction("src"))
                 /\ ~InChain(VReplicationAction)

\* C25 as amended: after step 2 succeeded the chain holds the action of
\* step 1 that restarts the stream and, recorded right after it, the action
\* that restarts replication on the source tablet; nothing was replaced.
StreamActionKeptByStepTwo ==
  StepTwoDone =>
    IsPrefix(<<ChangeTabletTypeAction("dst"), ChangeTabletTypeAction("src"),
               VReplicationAction, StartReplicationAction("src")>>, cleaner)

\* step 2 has just succeeded: the chain holds four actions
ChainAfterStepTwo ==
  /\ pc = "sync_StartUntil"
  /\ Len(cleaner) = 4
  /\ ~tablet["src"].running

\* C26: after step 5 succeeded the action of step 1 that restarts the
\* stream is no longer in the chain, and CleanUp does not run it.
StreamActionRemovedByStepFive ==
  phaseResult[3] = "ok" =>
    /\ ~InChain(VReplicationAction)
    /\ \A i \in DOMAIN executed : executed[i] # VReplicationAction

\* ---------------------------------------------------------------------
\* Schema fetches, schema comparison and the streams of the table diffs
\* ---------------------------------------------------------------------

\* the schema fetch of side s failed
FetchFailed(s) == <<"GetSchema", s>> \in rec

\* both schema fetches returned a schema
BothFetched == \A s \in Sides : schema[s] # NoSchema

\* the schema comparison recorded at least one difference
SchemasDiffer == BothFetched /\ schema["src"] # schema["dst"]

\* the state has been set to DiffWillFail at some point of the run
WillFailSet ==
  \E i \in DOMAIN stateTrace : stateTrace[i] = WorkerStateDiffWillFail

\* C27 as stated: when a schema fetch fails the run is flagged DiffWillFail
\* and the diff phase goes on, so that once diff has returned every table of
\* a destination schema that was fetched has been diffed.
FetchFailureContinues ==
  ((\E s \in Sides : FetchFailed(s)) /\ phaseResult[4] # "none") =>
    /\ WillFailSet
    /\ schema["dst"] # NoSchema =>
         \A t \in schema["dst"] : taskResult[t] # "none"

\* C27 amended: when a schema fetch fails the run is flagged DiffWillFail,
\* the other fetch is still awaited, and diff then returns the error: it
\* never reaches the schema comparison, no table diff is started, no stream
\* is opened, and the recorder holds fetch errors only.
FetchFailureEndsDiff ==
  (\E s \in Sides : FetchFailed(s)) =>
    /\ WillFailSet
    /\ pc # "diff_wait2"
    /\ \A t \in Tables :
         taskPc[t] = "none" /\ taskResult[t] = "none" /\ open[t] = {}
    /\ rec \subseteq {<<"GetSchema", s>> : s \in Sides}
    /\ phaseResult[4] # "ok"
    /\ phaseResult[4] = "err" =>
         (runErr = ErrDiff /\ \A s \in Sides : fetchPc[s] = "done")

\* witness of C27: the source fetch failed, the destination schema with all
\* tables was fetched, the run ended in Error and no table was diffed
SourceFetchFailedNoTableDiffed ==
  /\ pc = "done"
  /\ FetchFailed("src")
  /\ schema["dst"] = Tables
  /\ state = WorkerStateError
  /\ \A t \in Tables : taskResult[t] = "none"

\* C28: schema differences do not abort the diff phase: once the comparison
\* found a difference, a table diff has been started for every table of the
\* destination schema, and when diff returns each of them has run to its end.
SchemaDifferencesDoNotAbort ==
  SchemasDiffer =>
    /\ pc = "diff_wait2" =>
         \A t \in schema["dst"] : taskPc[t] # "none"
    /\ phaseResult[4] # "none" =>
         \A t \in schema["dst"] :
           taskPc[t] = "done" /\ taskResult[t] # "none"

\* witness of C28: diff returned with a schema difference and, beside it, the
\* differences a table diff found after the comparison
TableDiffedAfterSchemaDifference ==
  /\ phaseResult[4] = "err"
  /\ SchemasDiffer
  /\ <<"schema", NumTables>> \in rec
  /\ \E t \in Tables :
       taskResult[t] = "differences" /\ <<"has differences", t>> \in rec
  /\ \A t \in schema["dst"] : taskPc[t] = "done"

\* C29: a schema difference makes diff return an error and Run end in Error
\* even when every table diff is clean, and the comparison itself never sets
\* DiffWillFail: with both schemas fetched the state is only flagged by a
\* table diff.
SchemaDifferenceFailsRunUnflagged ==
  /\ (SchemasDiffer /\ phaseResult[4] # "none") =>
       (phaseResult[4] = "err" /\ runErr = ErrDiff)
  /\ (SchemasDiffer /\ pc = "done") =>
       (state = WorkerStateError /\ retErr = ErrDiff)
  /\ (BothFetched /\ MarkedTables = {}) => ~WillFailSet
  /\ (BothFetched /\ MarkedTables = {} /\ pc = "diff_wait2") =>
       state = WorkerStateDiff

\* witness of C29: Run ended in Error on a schema difference alone, every
\* table diff clean, CleanUp succeeded, and DiffWillFail was never set
ErrorOnSchemaDifferenceNeverFlagged ==
  /\ pc = "done"
  /\ SchemasDiffer
  /\ schema["dst"] # {}
  /\ \A t \in schema["dst"] : taskResult[t] = "clean"
  /\ cerr = NoErr
  /\ state = WorkerStateError
  /\ ~WillFailSet

\* C30: every stream a table diff opened is closed exactly once before the
\* task finishes, on each exit path: a Close only runs on a stream that is
\* open, and a task that released its slot or finished holds no stream.
StreamsClosedOnEveryExit ==
  \A t \in Tables :
    /\ taskPc[t] = "closeDst" => open[t] = {"src", "dst"}
    /\ taskPc[t] = "closeSrc" => open[t] = {"src"}
    /\ taskPc[t] \in {"release", "done"} => open[t] = {}
    /\ taskPc[t] = "done" =>
         taskResult[t] \in {"srcFail", "dstFail", "newFail", "goErr",
                            "differences", "clean"}
    /\ phaseResult[4] # "none" => open[t] = {}

\* witness of C30: diff returned after one task left on a failed destination
\* scan and another on a failed differ construction, all streams closed
FailedTasksClosedTheirStreams ==
  /\ phaseResult[4] = "err"
  /\ \E a, b \in Tables :
       /\ taskResult[a] = "dstFail"
       /\ taskResult[b] = "newFail"
  /\ \A t \in Tables : taskPc[t] = "done" /\ open[t] = {}

\* ---------------------------------------------------------------------
\* The join of the goroutines of diff
\* ---------------------------------------------------------------------

\* a schema-fetch or table-diff goroutine that was launched has not finished
TaskRunning ==
  \/ \E s \in Sides : fetchPc[s] = "run"
  \/ \E t \in Tables : taskPc[t] \notin {"none", "done"}

\* C31: diff never returns, and the worker never enters CleanUp (nor a later
\* state), while a launched schema fetch or table diff is still running:
\* every launched goroutine has finished, no permit is taken and no stream
\* is open once the diff phase has returned.
NoTaskRunningAfterDiff ==
  (\/ phaseResult[4] # "none"
   \/ state \in {WorkerStateCleanUp, WorkerStateDone, WorkerStateError}
   \/ pc \in {"run_returned", "CleanUp", "Run_finish", "done"}) =>
    /\ ~TaskRunning
    /\ sem = 0
    /\ \A t \in Tables : open[t] = {}
    /\ \A t \in Tables : taskPc[t] = "done" => taskResult[t] # "none"

\* witness of C31: the worker is in CleanUp after a diff in which both
\* fetches and a table diff for every table were launched and have finished
CleanUpAfterAllTasksJoined ==
  /\ state = WorkerStateCleanUp
  /\ phaseResult[4] # "none"
  /\ \A s \in Sides : fetchPc[s] = "done"
  /\ \A t \in Tables : taskPc[t] = "done"

\* ---------------------------------------------------------------------
\* The error recorder shared by the table diffs
\* ---------------------------------------------------------------------

\* the errors the table goroutines recorded, one per failing table
TaskErrors == {TableError(t) : t \in MarkedTables}

WillFailKeptUntilCleanUp ==
  /\ \A i \in 1..(Len(stateTrace) - 1) :
       /\ stateTrace[i] = WorkerStateDiffWillFail =>
            stateTrace[i + 1] \in {WorkerStateDiffWillFail, WorkerStateCleanUp}
       /\ stateTrace[i] = WorkerStateCleanUp =>
            stateTrace[i + 1] \in {WorkerStateDone, WorkerStateError}
       /\ stateTrace[i] \notin {WorkerStateDone, WorkerStateError}
  /\ stateTrace # <<>> => state = stateTrace[Len(stateTrace)]

\* witness of C33: a table diff flagged the failure and finished, and a
\* later table diff has been compared clean while the state is still
\* DiffWillFail
CleanTableAfterWillFail ==
  /\ state = WorkerStateDiffWillFail
  /\ \E a, b \in Tables :
       /\ taskPc[a] = "done" /\ taskResult[a] = "srcFail"
       /\ taskPc[b] = "closeDst" /\ taskResult[b] = "clean"

\* ---------------------------------------------------------------------
\* Failures of init and of findTargets
\* ---------------------------------------------------------------------

\* the worker has changed nothing on the tablets and on the stream
NothingMutated ==
  /\ \A s \in Sides : tablet[s].running /\ tablet[s].type = "serving"
  /\ vr.state = "Running"

\* C34: when init failed no remote mutation has been performed and the
\* cleaner is empty, so CleanUp runs no action and returns nil, and the
\* states set are Init, CleanUp, Error, Run returning the error of init.
InitFailureLeavesNothingToClean ==
  phaseResult[1] = "err" =>
    /\ NothingMutated
    /\ cleaner = <<>>
    /\ executed = <<>>
    /\ cerr = NoErr
    /\ ~destinationAlias /\ ~sourceAlias
    /\ phases = <<"init">>
    /\ pc = "done" =>
         /\ stateTrace = <<WorkerStateInit, WorkerStateCleanUp,
                           WorkerStateError>>
         /\ retErr = ErrInit

\* witness of C34: Run returned after init failed on a shard without
\* primary, both topology reads having succeeded
RunEndedAfterInitFailure ==
  /\ pc = "done"
  /\ phaseResult[1] = "err"
  /\ topoReads = 2
  /\ ~topo.hasPrimary /\ topo.sourceShards = 1 /\ topo.tables # 0
  /\ state = WorkerStateError
  /\ cleanUpCalls = 1

Attempted == {t \in Tables : taskPc[t] # "none"}

\* C36: from the schema comparison on, the tables for which a row diff is
\* attempted are exactly the tables of the destination schema that was
\* fetched: a table of the source schema alone is never scanned; and every
\* table diff is launched once, by the loop of diff, and never starts again.
AttemptedTablesAreDestinationTables ==
  /\ [](/\ (BothFetched /\ (pc = "diff_wait2" \/ phaseResult[4] # "none")) =>
             Attempted = schema["dst"]
        /\ \A t \in Tables :
             (BothFetched /\ t \in schema["src"] \ schema["dst"]) =>
               (taskPc[t] = "none" /\ taskResult[t] = "none" /\ open[t] = {})
        /\ ~BothFetched => Attempted = {})
  /\ [][\A t \in Tables :
          /\ (taskPc[t] = "none" /\ taskPc'[t] # "none") =>
               (pc = "diff_wait1" /\ taskPc'[t] = "wait")
          /\ (taskPc[t] # "none" /\ taskPc'[t] # taskPc[t]) =>
               taskPc'[t] \notin {"none", "wait"}
          /\ taskPc[t] = "done" => taskPc'[t] = "done"]_vars

\* witness of C36: diff returned after the one table missing from the
\* destination schema was left out and every other table was diffed
SourceOnlyTableNotDiffed ==
  /\ phaseResult[4] # "none"
  /\ schema["src"] = Tables
  /\ schema["dst"] = Tables \ {NumTables}
  /\ taskPc[NumTables] = "none"
  /\ \A t \in schema["dst"] : taskPc[t] = "done" /\ taskResult[t] # "none"

\* ---------------------------------------------------------------------
\* The read of the stream's position
\* ---------------------------------------------------------------------

\* C38: when the read of the stream's position fails, or its result is not
\* one row of one column, synchronizeReplication returns its error with the
\* source tablet untouched and still replicating, and the StartVReplication
\* action recorded after the stop is the last entry of the cleaner; CleanUp,
\* when all its actions succeed, leaves the stream running again.
ReadPosFailureKeepsResumeAction ==
  /\ []((pc = "done" /\ InChain(VReplicationAction) /\ cerr = NoErr) =>
          (vr.state = "Running" /\ vr.until = NoPos))
  /\ [][(pc = "sync_ReadPos" /\ pc' = "run_returned") =>
          /\ phaseResult'[3] = "err" /\ runErr' = ErrSync
          /\ tablet' = tablet /\ tablet["src"].running
          /\ vr' = vr /\ vr.state = "Stopped"
          /\ cleaner' = cleaner
          /\ cleaner[Len(cleaner)] = VReplicationAction]_vars

\* witness of C38: synchronizeReplication failed with the stream stopped and
\* neither tablet stopped, and CleanUp has run the three recorded actions,
\* the resume of the stream first
StreamResumedAfterEarlySyncFailure ==
  /\ pc = "done"
  /\ phaseResult[3] = "err"
  /\ cerr = NoErr
  /\ executed = <<VReplicationAction, ChangeTabletTypeAction("src"),
                  ChangeTabletTypeAction("dst")>>
  /\ vr.state = "Running"
  /\ NothingMutated

\* ---------------------------------------------------------------------
\* The order of the two tablet searches
\* ---------------------------------------------------------------------

\* C39: findTargets obtains the destination alias first and the source
\* alias second; the source is only searched once the destination search
\* succeeded, and synchronizeReplication is only entered with both aliases
\* obtained.
DestinationFoundBeforeSource ==
  /\ sourceAlias => destinationAlias
  /\ pc = "findTargets_src" => (destinationAlias /\ ~sourceAlias)
  /\ pc = "findTargets_dst" => (~destinationAlias /\ ~sourceAlias)
  /\ sourceAlias =>
       (/\ Len(cleaner) >= 2
        /\ cleaner[1] = ChangeTabletTypeAction("dst")
        /\ cleaner[2] = ChangeTabletTypeAction("src"))
  /\ (Len(phases) >= 3 \/ phaseResult[3] # "none"
        \/ state \in {WorkerStateSyncReplication, WorkerStateDiff,
                      WorkerStateDiffWillFail}) =>
       (destinationAlias /\ sourceAlias /\ phaseResult[2] = "ok"
          /\ checksPassed >= 2)

\* witness of C39: synchronizeReplication has been entered after both
\* searches succeeded, the destination first
SyncEnteredWithBothAliases ==
  /\ state = WorkerStateSyncReplication
  /\ pc = "sync_StopVReplication"
  /\ destinationAlias /\ sourceAlias
  /\ cleaner = <<ChangeTabletTypeAction("dst"), ChangeTabletTypeAction("src")>>

\* ---------------------------------------------------------------------
\* Termination under fair scheduling
\* ---------------------------------------------------------------------

\* the steps of the goroutine that called Run and of the goroutines of diff:
\* every step of Next but those of the caller's context, of the source
\* primary and of the replication of the tablets and of the stream
WorkerNext ==
  \/ init_GetKeyspace
  \/ init_GetShard
  \/ \E i \in 1..4 : run_checkDone(i)
  \/ findTargets_dst
  \/ findTargets_src
  \/ sync_GetPrimary
  \/ sync_StopVReplication
  \/ sync_ReadPos
  \/ sync_GetSourceTablet
  \/ sync_StopSource
  \/ sync_StartUntil
  \/ sync_WaitForPos
  \/ sync_PrimaryPosition
  \/ sync_GetDestTablet
  \/ sync_StopDest
  \/ sync_StartVReplication
  \/ diff_start
  \/ \E s \in Sides : diff_GetSchema(s)
  \/ diff_DiffSchema
  \/ \E t \in Tables : task_Acquire(t)
  \/ \E t \in Tables : task_ScanSource(t)
  \/ \E t \in Tables : task_ScanDestination(t)
  \/ \E t \in Tables : task_Go(t)
  \/ \E t \in Tables : task_CloseDestination(t)
  \/ \E t \in Tables : task_CloseSource(t)
  \/ \E t \in Tables : task_Release(t)
  \/ diff_return
  \/ Run_CleanUp
  \/ Cleaner_CleanUp
  \/ Run_finish

\* the worker when run() calls diff: init, findTargets and
\* synchronizeReplication have returned nil and the third checkDone passed
DiffInit ==
  /\ pc = "diff"
  /\ state = WorkerStateSyncReplication
  /\ ctxDone = FALSE
  /\ runErr = NoErr
  /\ cerr = NoErr
  /\ retErr = NoErr
  /\ topo = [servedFroms |-> 1, sourceShards |-> 1, tables |-> 1,
             hasPrimary |-> TRUE]
  /\ topoReads = 2
  /\ destinationAlias = TRUE
  /\ sourceAlias = TRUE
  /\ cleaner = <<ChangeTabletTypeAction("dst"), ChangeTabletTypeAction("src"),
                 VReplicationAction, StartReplicationAction("src"),
                 StartReplicationAction("dst")>>
  /\ cleanIdx = 0
  /\ executed = <<>>
  /\ srcLog = 0
  /\ tablet = [s \in Sides |->
                 [pos |-> 0, running |-> FALSE, type |-> "drained"]]
  /\ vr = [state |-> "Running", pos |-> 0, until |-> NoPos]
  /\ vreplicationPos = 0
  /\ mysqlPos = 0
  /\ masterPos = 0
  /\ fetchPc = [s \in Sides |-> "none"]
  /\ schema = [s \in Sides |-> NoSchema]
  /\ rec = {}
  /\ sem = 0
  /\ taskPc = [t \in Tables |-> "none"]
  /\ taskResult = [t \in Tables |-> "none"]
  /\ open = [t \in Tables |-> {}]
  /\ stateTrace = <<WorkerStateInit, WorkerStateFindTargets,
                    WorkerStateSyncReplication>>
  /\ phases = <<"init", "findTargets", "synchronizeReplication">>
  /\ phaseResult = <<"ok", "ok", "ok", "none">>
  /\ checksPassed = 3
  /\ cancelPhase = 0
  /\ cleanUpCalls = 0
  /\ DifferIdle
  /\ cmd = CommandIdle

\* the steps from the call of diff to the return of Run, and the
\* cancellation of the context meanwhile
DiffNext ==
  \/ diff_start
  \/ \E s \in Sides : diff_GetSchema(s)
  \/ diff_DiffSchema
  \/ \E t \in Tables : task_Acquire(t)
  \/ \E t \in Tables : task_ScanSource(t)
  \/ \E t \in Tables : task_ScanDestination(t)
  \/ \E t \in Tables : task_Go(t)
  \/ \E t \in Tables : task_CloseDestination(t)
  \/ \E t \in Tables : task_CloseSource(t)
  \/ \E t \in Tables : task_Release(t)
  \/ diff_return
  \/ run_checkDone(4)
  \/ Run_CleanUp
  \/ Cleaner_CleanUp
  \/ Run_finish
  \/ Cancel

\* the Go scheduler runs a goroutine that can take a step; a remote call
\* returns or fails at its deadline, so the step after it stays possible
DiffFairSpec == DiffInit /\ [][DiffNext]_vars /\ WF_vars(WorkerNext)

\* C37: under fair scheduling every table diff that was launched acquires a
\* permit and finishes, the diff phase that was entered returns, and Run
\* returns with the state Done or Error, whatever the number of permits and
\* of tables: no deadlock on the permits or on the join.
RunTerminates ==
  /\ \A t \in Tables :
       (taskPc[t] = "wait") ~> (taskPc[t] = "done" /\ taskResult[t] # "none")
  /\ (pc = "diff_wait1") ~> (phaseResult[4] # "none")
  /\ <>(pc = "done" /\ state \in {WorkerStateDone, WorkerStateError})

\* witness of C37: Run returned Done after every table diff, more of them
\* than there are permits, had its turn
EveryTableHadItsTurn ==
  /\ pc = "done"
  /\ state = WorkerStateDone
  /\ NumTables > parallelDiffsCount
  /\ \A t \in Tables : taskPc[t] = "done"

(***************************************************************************)
(* The UpdateThrottlerConfiguration command of vtctl                       *)
(* (commandUpdateThrottlerConfiguration): one invocation with the flags    *)
(* and positional arguments the user gave.                                 *)
(***************************************************************************)
\* number of positional arguments an invocation can carry
MaxArgs == 3

\* a protobuf text that parses and one that does not
ValidText == "max_replication_lag_sec: 5"
InvalidText == "max_replication_lag_sec: {"
ArgValues == {ValidText, InvalidText}

RECURSIVE ArgLists(_)
\* the lists of n positional arguments
ArgLists(n) ==
  IF n = 0 THEN {<<>>}
  ELSE {Append(l, a) : l \in ArgLists(n - 1), a \in ArgValues}

\* flag.FlagSet.NArg and Arg: Arg(i) is the empty string when there is no
\* i-th positional argument
NArg == Len(cmd.positional)
Arg(i) == IF i < NArg THEN cmd.positional[i + 1] ELSE ""

\* prototext.Unmarshal: the empty text is the text of a configuration with
\* every field at its zero value
Unmarshal(text) ==
  CASE text = "" -> [ok |-> TRUE, configuration |-> "zero values"]
    [] text = ValidText -> [ok |-> TRUE, configuration |-> "lag 5"]
    [] OTHER -> [ok |-> FALSE, configuration |-> ""]

ErrFlags == "flag parse error"
ErrArgs == "the configuration protobuf text argument is required"
ErrUnmarshal == "failed to unmarshal the configuration protobuf text"
ErrClient == "error creating a throttler client"
ErrUpdate == "failed to update the throttler configuration"

cmdFrame == UNCHANGED <<workerVars, differVars>>

cmdReturn(e) == cmd' = [cmd EXCEPT !.pc = "returned", !.err = e]

\* subFlags.Parse(args)
cmd_Parse ==
  /\ cmd.pc = "Parse"
  /\ IF cmd.flagsOk
       THEN cmd' = [cmd EXCEPT !.pc = "CheckArgs"]
       ELSE cmdReturn(ErrFlags)
  /\ cmdFrame

\* the check of NArg and the optional throttler name
cmd_CheckArgs ==
  /\ cmd.pc = "CheckArgs"
  /\ IF NArg > 2
       THEN cmdReturn(ErrArgs)
       ELSE cmd' = [cmd EXCEPT !.pc = "Unmarshal",
                               !.throttlerName =
                                 IF NArg = 2 THEN Arg(1) ELSE ""]
  /\ cmdFrame

\* protoText := subFlags.Arg(0) and prototext.Unmarshal
cmd_Unmarshal ==
  /\ cmd.pc = "Unmarshal"
  /\ LET u == Unmarshal(Arg(0))
     IN  IF u.ok
           THEN cmd' = [cmd EXCEPT !.pc = "Connect",
                                   !.configuration = u.configuration]
           ELSE cmdReturn(ErrUnmarshal)
  /\ cmdFrame

\* throttlerclient.New(*server)
cmd_Connect ==
  /\ cmd.pc = "Connect"
  /\ \/ cmd' = [cmd EXCEPT !.pc = "Update", !.connected = TRUE]
     \/ cmdReturn(ErrClient)
  /\ cmdFrame

\* client.UpdateConfiguration and the report of the names it returned
cmd_UpdateConfiguration ==
  /\ cmd.pc = "Update"
  /\ LET update == [name |-> cmd.throttlerName,
                    configuration |-> cmd.configuration,
                    copyZeroValues |-> cmd.copyZeroValues]
     IN  \E e \in {NoErr, ErrUpdate} :
           cmd' = [cmd EXCEPT !.pc = "returned", !.err = e,
                              !.sent = Append(@, update)]
  /\ cmdFrame

\* an invocation with any flags and up to MaxArgs positional arguments,
\* beside a worker that has not been started
ThrottlerInit ==
  /\ WorkerInit
  /\ topo = [servedFroms |-> 1, sourceShards |-> 1, tables |-> 1,
             hasPrimary |-> TRUE]
  /\ \E n \in 0..MaxArgs :
       cmd \in [pc : {"Parse"}, flagsOk : BOOLEAN, positional : ArgLists(n),
                copyZeroValues : BOOLEAN, throttlerName : {""},
                configuration : {""}, err : {NoErr}, connected : {FALSE},
                sent : {<<>>}]

ThrottlerNext ==
  \/ cmd_Parse
  \/ cmd_CheckArgs
  \/ cmd_Unmarshal
  \/ cmd_Connect
  \/ cmd_UpdateConfiguration

ThrottlerSpec == ThrottlerInit /\ [][ThrottlerNext]_vars

\* C40: an invocation with no positional argument returns an error and
\* sends no update to the server, and an invocation with more than two
\* positional arguments returns an error before it connects.
ConfigurationArgumentRequired ==
  /\ (cmd.flagsOk /\ NArg = 0) =>
       /\ cmd.sent = <<>>
       /\ cmd.pc = "returned" => cmd.err # NoErr
  /\ (cmd.flagsOk /\ NArg > 2) =>
       /\ ~cmd.connected /\ cmd.sent = <<>>
       /\ cmd.pc = "returned" => cmd.err = ErrArgs

=============================================================================
